---- MODULE Spec2Model ----
(***************************************************************************)
(* Transcript parser of the HUD (src/src/hud/elements/agents.ts).           *)
(*                                                                         *)
(* parseTranscript folds the lines of a JSONL log with processEntry, then   *)
(* force-completes stale jobs and selects the jobs to report.               *)
(*                                                                         *)
(* Times are milliseconds.  Tool-use ids are naturals (0 = no id).  A text  *)
(* is a sequence of lexemes that stands for their concatenation; a blank    *)
(* is the lexeme " ".  The optional fields model/description of a job are   *)
(* copied through by the code and never read, and are left out.             *)
(***************************************************************************)
EXTENDS Integers, Sequences, FiniteSets, TLC

\* ------------------------------------------------------------------ bounds
\* timestamps 0..MaxTs occur in the lines of the logs
MaxTs == 1
\* number of distinct ids launched by a burst log
MaxLoadIds == 52
\* ids 1..MaxLoadTouched of a burst log receive results
MaxLoadTouched == 2
\* the timestamps of a burst log advance up to MaxLoadClock and then stay
MaxLoadClock == 3

\* ------------------------------------------------------- program constants
MAX_AGENT_MAP_SIZE == 50
STALE_AGENT_THRESHOLD_MS == 30 * 60 * 1000
\* the literal 10 of the output selection
MaxReported == 10

NoTime == -1
NoId == 0

Min(a, b) == IF a < b THEN a ELSE b
Max(a, b) == IF a > b THEN a ELSE b

\* ------------------------------------------------------------------- texts
AckMarker == "Async agent launched"
Tokens == {"b7", "a8de3dd"}
\* lexemes that contain the character '<'
TagLexemes == {"<task_id>", "</task_id>", "<status>", "</status>"}

\* Leading run of [a-zA-Z0-9] of a lexeme ("" when it has none).
AlnumPrefix(lex) ==
  CASE lex \in Tokens -> lex
    [] lex = "b7-x" -> "b7"
    [] lex = "completed" -> "completed"
    [] lex = "running" -> "running"
    [] lex = "done" -> "done"
    [] lex = "note" -> "note"
    [] OTHER -> ""

StringContent(text) == [kind |-> "string", text |-> text, items |-> <<>>]
ArrayContent(items) == [kind |-> "array", text |-> <<>>, items |-> items]
NoContent == [kind |-> "none", text |-> <<>>, items |-> <<>>]
TextItem(text) == [type |-> "text", text |-> text]

\* text.includes(lexeme)
Includes(text, lex) == \E i \in 1..Len(text) : text[i] = lex

\* typeof content === 'string' ? content : content.find(c => c.type === 'text')?.text || ''
FirstText(content) ==
  IF content.kind = "string" THEN content.text
  ELSE IF \E i \in 1..Len(content.items) : content.items[i].type = "text"
       THEN LET i == CHOOSE k \in 1..Len(content.items) :
                       /\ content.items[k].type = "text"
                       /\ \A j \in 1..(k - 1) : content.items[j].type # "text"
            IN content.items[i].text
       ELSE <<>>

\* index of the first lexeme after position i that is not a blank (0 if none)
SkipBlanks(text, i) ==
  IF \E j \in (i + 1)..Len(text) : text[j] # " "
  THEN CHOOSE j \in (i + 1)..Len(text) :
         text[j] # " " /\ \A k \in (i + 1)..(j - 1) : text[k] = " "
  ELSE 0

\* positions where /agentId:\s*([a-zA-Z0-9]+)/ matches
AgentIdMatches(text) ==
  {i \in 1..Len(text) :
     /\ text[i] = "agentId:"
     /\ SkipBlanks(text, i) # 0
     /\ AlnumPrefix(text[SkipBlanks(text, i)]) # ""}

\* extractBackgroundAgentId: the captured token, "" for null
extractBackgroundAgentId(content) ==
  LET text == FirstText(content)
      hits == AgentIdMatches(text)
  IN IF hits = {} THEN ""
     ELSE LET i == CHOOSE k \in hits : \A j \in hits : k <= j
          IN AlnumPrefix(text[SkipBlanks(text, i)])

\* positions where <open>([^<]+)<close> matches: open at i, close at the
\* returned j > i + 1, nothing with a '<' in between
TagClose(text, i, close) ==
  IF \E j \in (i + 2)..Len(text) :
       /\ text[j] = close
       /\ \A k \in (i + 1)..(j - 1) : text[k] \notin TagLexemes
  THEN CHOOSE j \in (i + 2)..Len(text) :
         /\ text[j] = close
         /\ \A k \in (i + 1)..(j - 1) : text[k] \notin TagLexemes
  ELSE 0

TagMatches(text, open, close) ==
  {i \in 1..Len(text) : text[i] = open /\ TagClose(text, i, close) # 0}

\* the capture group of the leftmost match, as the lexemes between the tags
TagCapture(text, open, close) ==
  LET i == CHOOSE k \in TagMatches(text, open, close) :
             \A j \in TagMatches(text, open, close) : k <= j
  IN SubSeq(text, i + 1, TagClose(text, i, close) - 1)

NoTaskOutput == [found |-> FALSE, taskId |-> <<>>, status |-> <<>>]

\* parseTaskOutputResult
parseTaskOutputResult(content) ==
  LET text == FirstText(content)
  IN IF /\ TagMatches(text, "<task_id>", "</task_id>") # {}
        /\ TagMatches(text, "<status>", "</status>") # {}
     THEN [found |-> TRUE,
           taskId |-> TagCapture(text, "<task_id>", "</task_id>"),
           status |-> TagCapture(text, "<status>", "</status>")]
     ELSE NoTaskOutput

\* isBackgroundLaunch (the const of processEntry)
isBackgroundLaunch(content) ==
  IF content.kind = "string" THEN Includes(content.text, AckMarker)
  ELSE /\ content.kind = "array"
       /\ \E i \in 1..Len(content.items) :
            /\ content.items[i].type = "text"
            /\ Includes(content.items[i].text, AckMarker)

\* ------------------------------------------------------ the log's entries
NoInput == [subagent_type |-> "", hasTodos |-> FALSE, todos |-> <<>>,
            skill |-> "", args |-> ""]
TaskInput(type) == [NoInput EXCEPT !.subagent_type = type]
TodoWriteInput(todos) == [NoInput EXCEPT !.hasTodos = TRUE, !.todos = todos]
SkillInput(skill, args) == [NoInput EXCEPT !.skill = skill, !.args = args]

\* ContentBlock
ToolUse(id, name, input) ==
  [type |-> "tool_use", id |-> id, name |-> name, input |-> input,
   tool_use_id |-> NoId, content |-> NoContent]
ToolResult(id, content) ==
  [type |-> "tool_result", id |-> NoId, name |-> "", input |-> NoInput,
   tool_use_id |-> id, content |-> content]
TextBlock ==
  [type |-> "text", id |-> NoId, name |-> "", input |-> NoInput,
   tool_use_id |-> NoId, content |-> NoContent]

\* TranscriptEntry: timestamp NoTime when the line has none; isArray FALSE
\* when message.content is missing or not an array
Entry(ts, blocks) == [timestamp |-> ts, isArray |-> TRUE, content |-> blocks]
EntryNoContent(ts) == [timestamp |-> ts, isArray |-> FALSE, content |-> <<>>]

\* -------------------------------------------------------- the tracked jobs
AgentMutUnknownType(id, type, ts) ==
  [id |-> id, type |-> "unknown", status |-> "running", startTime |-> ts,
   endTime |-> NoTime]

\* ActiveAgent
Agent(id, type, ts) ==
  [id |-> id, type |-> type, status |-> "running", startTime |-> ts,
   endTime |-> NoTime]

\* agentMap is a Map: a sequence in insertion order, keys distinct
Keys(m) == {m[i].id : i \in 1..Len(m)}
MapHas(m, id) == id \in Keys(m)
IndexOf(m, id) == CHOOSE i \in 1..Len(m) : m[i].id = id
MapGet(m, id) == m[IndexOf(m, id)]
\* Map.set keeps the position of a key that is already there
MapSet(m, id, v) ==
  IF MapHas(m, id) THEN [m EXCEPT ![IndexOf(m, id)] = v] ELSE Append(m, v)
MapDelete(m, id) == SelectSeq(m, LAMBDA a : a.id # id)

CompletedIdx(m) == {i \in 1..Len(m) : m[i].status = "completed"}

OldestCompletedMutNewest(m) ==
  IF CompletedIdx(m) = {} THEN NoId
  ELSE m[CHOOSE i \in CompletedIdx(m) :
           \A j \in CompletedIdx(m) :
             \/ m[i].startTime > m[j].startTime
             \/ (m[i].startTime = m[j].startTime /\ i >= j)].id

\* the search loop of the eviction: the first completed job, in map order,
\* with the strictly smallest start time (NoId for null)
OldestCompleted(m) ==
  IF CompletedIdx(m) = {} THEN NoId
  ELSE m[CHOOSE i \in CompletedIdx(m) :
           \A j \in CompletedIdx(m) :
             \/ m[i].startTime < m[j].startTime
             \/ (m[i].startTime = m[j].startTime /\ i <= j)].id

\* bounded agent map: at capacity, delete the oldest completed job if any
Evict(m, maxAgentMapSize) ==
  IF Len(m) >= maxAgentMapSize /\ OldestCompleted(m) # NoId
  THEN MapDelete(m, OldestCompleted(m))
  ELSE m

\* ---------------------------------------------------------- processEntry
NoSkill == [name |-> "", args |-> "", timestamp |-> NoTime]

\* backgroundAgentMap.get(taskId): NoId for undefined
BgGet(bg, taskId) ==
  IF Len(taskId) = 1 /\ taskId[1] \in DOMAIN bg THEN bg[taskId[1]] ELSE NoId

\* tool_use Task / proxy_Task
Launch(st, block, timestamp) ==
  [st EXCEPT !.agentMap =
     MapSet(Evict(st.agentMap, MAX_AGENT_MAP_SIZE), block.id,
            Agent(block.id,
                  IF block.input.subagent_type = "" THEN "unknown"
                  ELSE block.input.subagent_type,
                  timestamp))]

\* the map over input.todos: a TodoItem keeps three fields of the input item
TodoItem(t) ==
  [content |-> t.content, status |-> t.status, activeForm |-> t.activeForm]
TodoItems(todos) == [i \in 1..Len(todos) |-> TodoItem(todos[i])]

TodoWriteMutAppend(st, block) ==
  IF block.input.hasTodos
  THEN [st EXCEPT !.latestTodos = st.latestTodos \o TodoItems(block.input.todos)]
  ELSE st

\* tool_use TodoWrite
TodoWrite(st, block) ==
  IF block.input.hasTodos
  THEN [st EXCEPT !.latestTodos = TodoItems(block.input.todos)]
  ELSE st

SkillMutKeepFirst(st, block, timestamp) ==
  IF block.input.skill # "" /\ st.result.lastActivatedSkill = NoSkill
  THEN [st EXCEPT !.result.lastActivatedSkill =
          [name |-> block.input.skill, args |-> block.input.args,
           timestamp |-> timestamp]]
  ELSE st

\* tool_use Skill / proxy_Skill
Skill(st, block, timestamp) ==
  IF block.input.skill # ""
  THEN [st EXCEPT !.result.lastActivatedSkill =
          [name |-> block.input.skill, args |-> block.input.args,
           timestamp |-> timestamp]]
  ELSE st

ToolUseBlock(st, block, timestamp) ==
  IF block.type = "tool_use" /\ block.id # NoId /\ block.name # ""
  THEN CASE block.name \in {"Task", "proxy_Task"} -> Launch(st, block, timestamp)
         [] block.name = "TodoWrite" -> TodoWrite(st, block)
         [] block.name \in {"Skill", "proxy_Skill"} -> Skill(st, block, timestamp)
         [] OTHER -> st
  ELSE st

Complete(a, timestamp) ==
  [a EXCEPT !.status = "completed", !.endTime = timestamp]

DirectResultMutCompleteOnAck(st, block, timestamp) ==
  IF MapHas(st.agentMap, block.tool_use_id)
  THEN [st EXCEPT !.agentMap =
          MapSet(st.agentMap, block.tool_use_id,
                 Complete(MapGet(st.agentMap, block.tool_use_id), timestamp))]
  ELSE st

\* tool_result, first part: the result references a tracked job
DirectResult(st, block, timestamp) ==
  IF MapHas(st.agentMap, block.tool_use_id)
  THEN IF isBackgroundLaunch(block.content)
       THEN IF /\ block.content.kind # "none"
               /\ extractBackgroundAgentId(block.content) # ""
            THEN [st EXCEPT !.backgroundAgentMap =
                    (extractBackgroundAgentId(block.content)
                       :> block.tool_use_id) @@ st.backgroundAgentMap]
            ELSE st
       ELSE [st EXCEPT !.agentMap =
               MapSet(st.agentMap, block.tool_use_id,
                      Complete(MapGet(st.agentMap, block.tool_use_id),
                               timestamp))]
  ELSE st

TaskOutputResultMutAnyStatus(st, block, timestamp) ==
  LET taskOutput == parseTaskOutputResult(block.content)
      toolUseId == BgGet(st.backgroundAgentMap, taskOutput.taskId)
  IN IF /\ block.content.kind # "none"
        /\ taskOutput.found
        /\ toolUseId # NoId
        /\ MapHas(st.agentMap, toolUseId)
        /\ MapGet(st.agentMap, toolUseId).status = "running"
     THEN [st EXCEPT !.agentMap =
             MapSet(st.agentMap, toolUseId,
                    Complete(MapGet(st.agentMap, toolUseId), timestamp))]
     ELSE st

\* tool_result, second part: a TaskOutput completion report
TaskOutputResult(st, block, timestamp) ==
  LET taskOutput == parseTaskOutputResult(block.content)
      toolUseId == BgGet(st.backgroundAgentMap, taskOutput.taskId)
  IN IF /\ block.content.kind # "none"
        /\ taskOutput.found
        /\ taskOutput.status = <<"completed">>
        /\ toolUseId # NoId
        /\ MapHas(st.agentMap, toolUseId)
        /\ MapGet(st.agentMap, toolUseId).status = "running"
     THEN [st EXCEPT !.agentMap =
             MapSet(st.agentMap, toolUseId,
                    Complete(MapGet(st.agentMap, toolUseId), timestamp))]
     ELSE st

ToolResultBlock(st, block, timestamp) ==
  IF block.type = "tool_result" /\ block.tool_use_id # NoId
  THEN TaskOutputResult(DirectResult(st, block, timestamp), block, timestamp)
  ELSE st

\* the body of the loop over the blocks
ProcessBlock(st, block, timestamp) ==
  ToolResultBlock(ToolUseBlock(st, block, timestamp), block, timestamp)

RECURSIVE ProcessBlocks(_, _, _)
ProcessBlocks(st, blocks, timestamp) ==
  IF blocks = <<>> THEN st
  ELSE ProcessBlocks(ProcessBlock(st, Head(blocks), timestamp), Tail(blocks),
                     timestamp)

\* entry.timestamp ? new Date(entry.timestamp) : new Date()
EntryTime(entry, wallClock) ==
  IF entry.timestamp # NoTime THEN entry.timestamp ELSE wallClock

SessionStartMutLatest(st, entry, timestamp) ==
  IF entry.timestamp # NoTime
  THEN [st EXCEPT !.result.sessionStart = timestamp]
  ELSE st

\* if (!result.sessionStart && entry.timestamp)
SessionStart(st, entry, timestamp) ==
  IF st.result.sessionStart = NoTime /\ entry.timestamp # NoTime
  THEN [st EXCEPT !.result.sessionStart = timestamp]
  ELSE st

\* processEntry on its arguments st = [agentMap, backgroundAgentMap,
\* latestTodos, result]
processEntry(st, entry, wallClock) ==
  LET timestamp == EntryTime(entry, wallClock)
      st1 == SessionStart(st, entry, timestamp)
  IN IF ~entry.isArray THEN st1
     ELSE ProcessBlocks(st1, entry.content, timestamp)

\* ------------------------------------------------------- parseTranscript
\* Array.prototype.slice(start) with its treatment of a negative start
JsSliceFrom(s, start) ==
  LET k == IF start < 0 THEN Max(Len(s) + start, 0) ELSE Min(start, Len(s))
  IN SubSeq(s, k + 1, Len(s))

\* Array.prototype.slice(0, end), end >= 0
JsSliceTo(s, end) == SubSeq(s, 1, Min(end, Len(s)))

StaleMutNow(a, wallClock) ==
  IF a.status = "running" /\ wallClock - a.startTime > STALE_AGENT_THRESHOLD_MS
  THEN Complete(a, wallClock)
  ELSE a

\* the body of the staleness loop
Stale(a, wallClock) ==
  IF a.status = "running" /\ wallClock - a.startTime > STALE_AGENT_THRESHOLD_MS
  THEN Complete(a, a.startTime + STALE_AGENT_THRESHOLD_MS)
  ELSE a

StalePass(m, wallClock) == [i \in 1..Len(m) |-> Stale(m[i], wallClock)]

Running(m) == SelectSeq(m, LAMBDA a : a.status = "running")
Completed(m) == SelectSeq(m, LAMBDA a : a.status = "completed")

SelectAgentsMutNoCap(m) ==
  Running(m) \o JsSliceFrom(Completed(m), -(MaxReported - Len(Running(m))))

SelectAgentsMutCompletedFirst(m) ==
  JsSliceTo(Completed(m) \o Running(m), MaxReported)

\* [...running, ...completed.slice(-(10 - running.length))].slice(0, 10)
SelectAgents(m) ==
  JsSliceTo(
    Running(m) \o JsSliceFrom(Completed(m), -(MaxReported - Len(Running(m)))),
    MaxReported)

\* ------------------------------------------------------------------- state
VARIABLES
  agentMap,            \* Map<string, ActiveAgent>
  backgroundAgentMap,  \* token -> tool_use id
  latestTodos,         \* TodoItem[]
  result,              \* TranscriptData
  pc,                  \* "folding" while the lines are read, then "done"
  now,                 \* the wall clock of this invocation
  launched,            \* history: per launched id, what the log held since
  acked,               \* history: token -> the job last acknowledged with it
  lastWrite,           \* history: the TodoWrite invocations of the log
  events,              \* history: the first events and the last skill of the log
  file,                \* the transcript file behind transcriptPath
  lines,               \* the lines the loop of parseTranscript has yet to take
  parsed,              \* history: the lines handed to JSON.parse so far
  time,                \* Date.now() as getUsage sees it
  cache,               \* the content of .usage-cache.json
  creds,               \* the platform and the two credential stores
  req,                 \* the https request of the getUsage call in flight
  call,                \* history: what the current or last getUsage call did
  hud,                 \* the invocation of main: position, context, output
  workdir,             \* the state files and what the last state reader did
  registry,            \* the mode state files and the last clearing call
  race,                \* the cache file and the getUsage calls sharing it
  last,                \* history: the line folded last and the jobs before it
  pure                 \* a function of the elements: its input and its result

vars == <<agentMap, backgroundAgentMap, latestTodos, result, pc, now,
          launched, acked, lastWrite, events, file, lines, parsed,
          time, cache, creds, req, call, hud, workdir,
          registry, race, last, pure>>

transcriptVars == <<agentMap, backgroundAgentMap, latestTodos, result, pc, now,
                    launched, acked, lastWrite, events>>
fileVars == <<file, lines, parsed>>
usageVars == <<time, cache, creds, req, call>>
mainVars == <<hud, workdir, registry, race, last, pure>>

EmptyResult ==
  [agents |-> <<>>, todos |-> <<>>, lastActivatedSkill |-> NoSkill,
   sessionStart |-> NoTime]

\* Date.now(): a job started at MaxTs has run for exactly the threshold, a
\* job started earlier for longer
Nows == {STALE_AGENT_THRESHOLD_MS + MaxTs}

\* no line folded yet
NoEvents ==
  [any |-> FALSE, first |-> NoTime, stamped |-> NoTime, skill |-> NoSkill]

\* the locals of parseTranscript before its first line
InitTranscript ==
  /\ agentMap = <<>>
  /\ backgroundAgentMap = <<>>
  /\ latestTodos = <<>>
  /\ result = EmptyResult
  /\ now \in Nows
  /\ launched = <<>>
  /\ acked = <<>>
  /\ lastWrite = [todos |-> <<>>, earlier |-> {}]
  /\ events = NoEvents

\* no file is modelled: the lines come from the entry sets below
NoFile == [status |-> "present", content |-> <<>>]
NoRead == -1
InitNoFile ==
  file = NoFile /\ lines = <<>> /\ parsed = [read |-> NoRead, lines |-> <<>>]

\* RateLimits | null
NullLimits == [null |-> TRUE, fiveHourPercent |-> 0, weeklyPercent |-> 0]
Limits(fiveHour, weekly) ==
  [null |-> FALSE, fiveHourPercent |-> fiveHour, weeklyPercent |-> weekly]

\* .usage-cache.json: no file, a file JSON.parse rejects, or a UsageCache
NoCache == [kind |-> "absent", timestamp |-> 0, data |-> NullLimits,
            error |-> FALSE]
CorruptCache == [NoCache EXCEPT !.kind = "corrupt"]
CacheEntry(timestamp, data, error) ==
  [kind |-> "entry", timestamp |-> timestamp, data |-> data, error |-> error]

\* a credential store: nothing, text JSON.parse rejects, or an object with
\* accessToken (<<>> when it has none) and expiresAt (NoExpiry when absent)
NoExpiry == -1
NoStore == [kind |-> "absent", accessToken |-> <<>>, expiresAt |-> NoExpiry]
CorruptStore == [NoStore EXCEPT !.kind = "corrupt"]
Stored(accessToken, expiresAt) ==
  [kind |-> "json", accessToken |-> accessToken, expiresAt |-> expiresAt]
NoPlatform == [platform |-> "linux", keychain |-> NoStore, file |-> NoStore]

\* window objects of UsageApiResponse: utilization is a JavaScript value
JsValue(t, v) == [t |-> t, v |-> v]
Undefined == JsValue("undefined", 0)
NoWindow == [present |-> FALSE, utilization |-> Undefined]
Window(utilization) == [present |-> TRUE, utilization |-> utilization]
Response(fiveHour, sevenDay) == [five_hour |-> fiveHour, seven_day |-> sevenDay]

\* the https request: sent or not, ms since the socket was last active
NoRequest == [open |-> FALSE, idle |-> 0, accessToken |-> <<>>]

NoWrite == [attempted |-> FALSE, data |-> NullLimits, error |-> FALSE]
\* call.state: "none", "pending" (awaiting the request), "returned",
\* "rejected".  call.entry and call.credentials say what the call found when
\* it started: the cache entry "fresh", "stale failure", "stale success" or
\* "none"; the credentials "none", "expired" or "unexpired".
NoCall ==
  [state |-> "none", entry |-> "none", credentials |-> "none",
   stores |-> {}, requests |-> 0, accessToken |-> <<>>, destroyed |-> FALSE,
   fetched |-> FALSE, response |-> Response(NoWindow, NoWindow),
   wrote |-> NoWrite, stored |-> FALSE, ret |-> NullLimits]

\* no usage query is modelled
InitNoUsage ==
  /\ time = 0 /\ cache = NoCache /\ creds = NoPlatform /\ req = NoRequest
  /\ call = NoCall

\* main not invoked.  pc: the await main stands at; stdin: what readStdin
\* gave; config: what readHudConfig gave; calls: the steps main has called;
\* rateLimits: the field of the render context; rendered: what render
\* returned; output: the texts written with console.log, in order; failed:
\* the catch block ran; raised: an exception left main
HudConfig(rateLimits) == [elements |-> [rateLimits |-> rateLimits]]
NoMain ==
  [pc |-> "none", stdin |-> "unread", config |-> HudConfig(TRUE),
   calls |-> {}, rateLimits |-> NullLimits, rendered |-> <<>>,
   output |-> <<>>, failed |-> FALSE, raised |-> FALSE]

\* a JSON file: absent, not parseable, or holding null or an object; of the
\* object the fields the readers look at
NoStories == [isArray |-> FALSE, items |-> <<>>]
NoFileAt == [kind |-> "absent", active |-> FALSE, count |-> 0, max |-> 0,
             userStories |-> NoStories]
CorruptFile == [NoFileAt EXCEPT !.kind = "corrupt"]
NullFile == [NoFileAt EXCEPT !.kind = "null"]
StateFile(active, count, max) ==
  [NoFileAt EXCEPT !.kind = "object", !.active = active, !.count = count,
                   !.max = max]
PrdFile(userStories) ==
  [NoFileAt EXCEPT !.kind = "object",
                   !.userStories = [isArray |-> TRUE, items |-> userStories]]
\* what a reader returns; null: it returned null
NullView == [null |-> TRUE, active |-> FALSE, count |-> 0, max |-> 0,
             currentStoryId |-> "", completed |-> 0, total |-> 0]
NoFiles ==
  [ralph |-> NoFileAt, ultraworkLocal |-> NoFileAt,
   ultraworkGlobal |-> NoFileAt, prdRoot |-> NoFileAt,
   prdSisyphus |-> NoFileAt]
NoReader ==
  [files |-> NoFiles, reader |-> "none", ret |-> NullView, raised |-> FALSE]

\* Supported execution modes, in the order of Object.keys(MODE_CONFIGS)
ExecutionModes ==
  <<"autopilot", "ralph", "ultrawork", "ultraqa", "ultrapilot", "swarm",
    "pipeline", "ecomode">>
Modes == {ExecutionModes[i] : i \in 1..Len(ExecutionModes)}
ModeConfig(markerFile, hasGlobalState) ==
  [markerFile |-> markerFile, hasGlobalState |-> hasGlobalState]
MODE_CONFIGS ==
  [mode \in Modes |->
     CASE mode = "ralph" -> ModeConfig(TRUE, TRUE)
       [] mode \in {"ultrawork", "ecomode"} -> ModeConfig(FALSE, TRUE)
       [] mode \in {"ultrapilot", "swarm"} -> ModeConfig(TRUE, FALSE)
       [] OTHER -> ModeConfig(FALSE, FALSE)]

\* a path: the state file or marker file of a mode under .omc/state, or
\* its state file under ~/.claude
Path(mode, kind) == [mode |-> mode, kind |-> kind]
getStateFilePath(mode) == Path(mode, "state")
getMarkerFilePath(mode) == Path(mode, "marker")
getGlobalStateFilePath(mode) == Path(mode, "global")
FilesOf(mode) ==
  {getStateFilePath(mode)}
  \cup (IF MODE_CONFIGS[mode].markerFile THEN {getMarkerFilePath(mode)}
        ELSE {})
  \cup (IF MODE_CONFIGS[mode].hasGlobalState
        THEN {getGlobalStateFilePath(mode)} ELSE {})
Paths == UNION {FilesOf(mode) : mode \in Modes}

\* no mode has a file, nothing was called.  before: the files when the call
\* began; attempted: the paths unlinkSync was called on; returns: what
\* clearModeState returned for each mode it was called for
NoModeFiles == [path \in Paths |-> "absent"]
NoClear ==
  [op |-> "none", mode |-> "", before |-> NoModeFiles, attempted |-> {},
   returns |-> [mode \in Modes |-> TRUE], ret |-> TRUE]
NoRegistry == [files |-> NoModeFiles, call |-> NoClear]

\* the cache file as the processes sharing it see it: the units of text it
\* holds, a unit being a part of the text of one entry or text of no entry;
\* and each process's getUsage call
Unit(entry, at) == [entry |-> entry, at |-> at]
Scrap == Unit(NoCache, 0)
NoDisk == [exists |-> FALSE, text |-> <<>>]
Disk(text) == [exists |-> TRUE, text |-> text]
NoProc ==
  [pc |-> "idle", via |-> "none", ret |-> NullLimits, entry |-> NoCache,
   requests |-> 0]
Procs == {"p", "q"}
NoRace == [disk |-> NoDisk, procs |-> [p \in Procs |-> NoProc], written |-> {}]
\* no line folded with its history kept; no function applied
NoLast ==
  [folded |-> FALSE, entry |-> EntryNoContent(NoTime), agentMap |-> <<>>,
   acked |-> <<>>]
NoPure == [fn |-> "none", input |-> <<>>, output |-> <<>>]
InitNoMain ==
  /\ hud = NoMain /\ workdir = NoReader /\ registry = NoRegistry
  /\ race = NoRace /\ last = NoLast /\ pure = NoPure

Init ==
  InitTranscript /\ pc = "folding" /\ InitNoFile /\ InitNoUsage /\ InitNoMain

\* ----------------------------------------------------- history of the log
\* What the lines folded so far say about each launched id, read off the
\* log alone.  launched[id].seen, since the last launch of id:
\*   "none"   no result for id and no completion report for its token
\*   "ack"    only async-launch acknowledgments
\*   "report" then a completion report, status completed, for the token
\*   "direct" a result for id that is no acknowledgment
\* launched[id].at is the timestamp of the line that made it "report" or
\* "direct".  acked[T] is the tracked job whose acknowledgment last
\* carried token T.
DeclaredType(block) ==
  IF block.input.subagent_type = "" THEN "unknown"
  ELSE block.input.subagent_type

IsLaunch(block) ==
  /\ block.type = "tool_use" /\ block.id # NoId
  /\ block.name \in {"Task", "proxy_Task"}

IsResult(block) == block.type = "tool_result" /\ block.tool_use_id # NoId

AckedBlock(ak, block, tracked) ==
  IF /\ IsResult(block) /\ block.tool_use_id \in tracked
     /\ isBackgroundLaunch(block.content)
     /\ extractBackgroundAgentId(block.content) # ""
  THEN (extractBackgroundAgentId(block.content) :> block.tool_use_id) @@ ak
  ELSE ak

HistoryBlock(h, ak, block, timestamp, tracked) ==
  IF IsLaunch(block)
  THEN (block.id :> [declared |-> DeclaredType(block), seen |-> "none",
                     at |-> NoTime]) @@ h
  ELSE IF IsResult(block)
  THEN LET id == block.tool_use_id
           h1 == IF id \in tracked
                 THEN IF isBackgroundLaunch(block.content)
                      THEN [h EXCEPT ![id].seen = IF @ = "none" THEN "ack" ELSE @]
                      ELSE [h EXCEPT ![id].seen = "direct", ![id].at = timestamp]
                 ELSE h
           report == parseTaskOutputResult(block.content)
           target == BgGet(AckedBlock(ak, block, tracked), report.taskId)
       IN IF /\ report.found /\ report.status = <<"completed">>
             /\ target \in tracked
             /\ h1[target].seen \in {"none", "ack"}
          THEN [h1 EXCEPT ![target].seen = "report", ![target].at = timestamp]
          ELSE h1
  ELSE h

\* lastWrite.todos: the input list of the last TodoWrite invocation that
\* carried one; lastWrite.earlier: the items of the lists written before it
WriteBlock(w, block) ==
  IF /\ block.type = "tool_use" /\ block.id # NoId /\ block.name = "TodoWrite"
     /\ block.input.hasTodos
  THEN [todos |-> block.input.todos,
        earlier |-> w.earlier \cup {w.todos[i] : i \in 1..Len(w.todos)}]
  ELSE w

\* events.any: a line was folded; events.first: the timestamp the first line
\* folded carries (NoTime: it carries none); events.stamped: the timestamp of
\* the first line folded that carries one; events.skill: name, arguments and
\* time of the last tool_use block with an id, named Skill or proxy_Skill,
\* whose input names a skill
IsNamedSkill(block) ==
  /\ block.type = "tool_use" /\ block.id # NoId
  /\ block.name \in {"Skill", "proxy_Skill"}
  /\ block.input.skill # ""

EventsEntry(ev, entry, timestamp) ==
  [any |-> TRUE,
   first |-> IF ev.any THEN ev.first ELSE entry.timestamp,
   stamped |-> IF ev.stamped = NoTime THEN entry.timestamp ELSE ev.stamped,
   skill |-> IF entry.isArray /\ IsNamedSkill(entry.content[1])
             THEN [name |-> entry.content[1].input.skill,
                   args |-> entry.content[1].input.args,
                   timestamp |-> timestamp]
             ELSE ev.skill]

\* ----------------------------------------------------------------- actions
\* one line of the log is parsed and folded (the body of the for loops);
\* the lines folded here hold one block each
FoldEntry(entry) ==
  /\ pc = "folding"
  /\ LET st == processEntry([agentMap |-> agentMap,
                             backgroundAgentMap |-> backgroundAgentMap,
                             latestTodos |-> latestTodos,
                             result |-> result], entry, now)
     IN /\ agentMap' = st.agentMap
        /\ backgroundAgentMap' = st.backgroundAgentMap
        /\ latestTodos' = st.latestTodos
        /\ result' = st.result
  /\ launched' = IF entry.isArray
                 THEN HistoryBlock(launched, acked, entry.content[1],
                                   EntryTime(entry, now), Keys(agentMap))
                 ELSE launched
  /\ acked' = IF entry.isArray
              THEN AckedBlock(acked, entry.content[1], Keys(agentMap))
              ELSE acked
  /\ lastWrite' = IF entry.isArray THEN WriteBlock(lastWrite, entry.content[1])
                  ELSE lastWrite
  /\ events' = EventsEntry(events, entry, EntryTime(entry, now))
  /\ UNCHANGED <<pc, now>>

Fold(entry) == FoldEntry(entry) /\ UNCHANGED <<fileVars, usageVars, mainVars>>

\* the end of the log: staleness pass, selection, return
Finish ==
  /\ pc = "folding"
  /\ agentMap' = StalePass(agentMap, now)
  /\ result' = [result EXCEPT !.agents = SelectAgents(StalePass(agentMap, now)),
                              !.todos = latestTodos]
  /\ pc' = "done"
  /\ UNCHANGED <<backgroundAgentMap, latestTodos, now, launched, acked,
                 lastWrite, events, fileVars, usageVars, mainVars>>

\* ------------------------------------------------- logs of launches/results
Ids == {1, 2}
\* the id of a tool_use that is no Task (a TaskOutput call)
OtherId == Cardinality(Ids) + 1
TimeStamps == 0..MaxTs

AckText(t) == <<AckMarker, " ", "agentId:", " ", t>>
ReportText(t, s) ==
  <<"<task_id>", t, "</task_id>", "<status>", s, "</status>">>

ReportContents ==
  {StringContent(ReportText("b7", "completed")),
   StringContent(ReportText("b7", "running")),
   ArrayContent(<<TextItem(ReportText("b7-x", "completed"))>>)}

AckContents ==
  {StringContent(<<AckMarker>>),
   StringContent(AckText("b7")),
   ArrayContent(<<TextItem(<<"note">>), TextItem(AckText("b7"))>>),
   StringContent(AckText("b7") \o ReportText("b7", "completed"))}

PlainContents == {StringContent(<<"done">>)}

LaunchBlocks ==
  {ToolUse(1, "Task", TaskInput("explore")),
   ToolUse(2, "proxy_Task", NoInput)}

ResultBlocks ==
  {ToolResult(id, c) :
     id \in Ids, c \in PlainContents \cup AckContents \cup ReportContents}
  \cup {ToolResult(OtherId, c) : c \in ReportContents}

JobEntries ==
  {Entry(ts, <<b>>) : ts \in TimeStamps, b \in LaunchBlocks \cup ResultBlocks}

Next ==
  \/ \E entry \in JobEntries : Fold(entry)
  \/ Finish

Spec == Init /\ [][Next]_vars

\* ------------------------------------------------------------ job claims
Tracked(id) == MapHas(agentMap, id)
Job(id) == MapGet(agentMap, id)
RunningCount(m) == Len(Running(m))
CompletedCount(m) == Len(Completed(m))

\* C1: a tracked job that is completed is never running afterwards, and the
\* record kept under an id carries that id, whatever lines are folded
\* (lines that launch an id already tracked included).
C1_NeverRunningAgain ==
  [][/\ \A i \in 1..Len(agentMap) :
          agentMap[i].status = "completed" =>
            \A j \in 1..Len(agentMap') :
              agentMap'[j].id = agentMap[i].id =>
                agentMap'[j].status = "completed"
     /\ \A j, k \in 1..Len(agentMap') :
          agentMap'[j].id = agentMap'[k].id => j = k]_vars

\* C2: after parseTranscript, a job that since its launch has only received
\* async-launch acknowledgments (no other result, no completion report
\* resolved to it) is running if now - startTime is at most the staleness
\* threshold, and otherwise completed with endTime = startTime + threshold;
\* the reported list shows it that way.
C2_StaleAtThreshold ==
  pc = "done" =>
    \A i \in 1..Len(agentMap) :
      LET a == agentMap[i] IN
      (a.id \in DOMAIN launched /\ launched[a.id].seen = "ack") =>
        /\ IF now - a.startTime <= STALE_AGENT_THRESHOLD_MS
           THEN a.status = "running" /\ a.endTime = NoTime
           ELSE /\ a.status = "completed"
                /\ a.endTime = a.startTime + STALE_AGENT_THRESHOLD_MS
        /\ \A k \in 1..Len(result.agents) :
             result.agents[k].id = a.id => result.agents[k] = a
        /\ Len(agentMap) <= MaxReported =>
             \E k \in 1..Len(result.agents) : result.agents[k] = a

\* an acknowledged job at exactly the threshold still runs while another
\* one past it was force-completed at startTime + threshold
C2_Witness ==
  /\ pc = "done"
  /\ \E i, j \in 1..Len(agentMap) :
       /\ launched[agentMap[i].id].seen = "ack"
       /\ launched[agentMap[j].id].seen = "ack"
       /\ agentMap[i].status = "running"
       /\ now - agentMap[i].startTime = STALE_AGENT_THRESHOLD_MS
       /\ agentMap[j].status = "completed"
       /\ agentMap[j].endTime = agentMap[j].startTime + STALE_AGENT_THRESHOLD_MS
       /\ agentMap[j].endTime < now

\* C3: a result for tracked job J that holds the acknowledgment with token T
\* records T -> J and leaves J running; a later completion report, in a
\* result block for any id, with task id T and status "completed" completes
\* the job T maps to, if it still runs, with endTime = that line's timestamp.
C3_AckThenReport ==
  /\ backgroundAgentMap = acked
  /\ \A id \in DOMAIN launched :
       Tracked(id) =>
         /\ (launched[id].seen = "ack" /\ pc = "folding") =>
              Job(id).status = "running" /\ Job(id).endTime = NoTime
         /\ launched[id].seen = "report" =>
              /\ Job(id).status = "completed"
              /\ Job(id).endTime = launched[id].at

\* a job that was acknowledged with a token and then completed by a report
\* at a later time, never by a result for its own id, next to a job that was
\* acknowledged and still runs
C3_Witness ==
  /\ pc = "folding"
  /\ \E id, other \in DOMAIN launched :
       /\ launched[id].seen = "report"
       /\ Job(id).status = "completed"
       /\ Job(id).endTime > Job(id).startTime
       /\ \E t \in DOMAIN backgroundAgentMap : backgroundAgentMap[t] = id
       /\ launched[other].seen = "ack"
       /\ Job(other).status = "running"

\* C4: while the log is folded, an id launched with no result since is
\* tracked once, running, with the type its launch declared; once a result
\* for it that is no async-launch acknowledgment is folded it is completed
\* with endTime = that line's timestamp; so the running jobs are the tracked
\* ids without such a result (and without a resolved completion report), the
\* completed jobs the others.
C4_LaunchThenResult ==
  pc = "folding" =>
    /\ \A id \in DOMAIN launched :
         /\ launched[id].seen = "none" =>
              /\ Cardinality({i \in 1..Len(agentMap) : agentMap[i].id = id}) = 1
              /\ Job(id).status = "running"
              /\ Job(id).type = launched[id].declared
         /\ (launched[id].seen = "direct" /\ Tracked(id)) =>
              /\ Job(id).status = "completed"
              /\ Job(id).endTime = launched[id].at
    /\ RunningCount(agentMap) =
         Cardinality({id \in Keys(agentMap) : launched[id].seen \in {"none", "ack"}})
    /\ CompletedCount(agentMap) =
         Cardinality({id \in Keys(agentMap) : launched[id].seen \in {"report", "direct"}})

\* one job launched and still without a result next to one completed by a
\* plain result
C4_Witness ==
  /\ pc = "folding"
  /\ \E x, y \in DOMAIN launched :
       /\ launched[x].seen = "none" /\ Job(x).status = "running"
       /\ Job(x).type = "explore"
       /\ launched[y].seen = "direct" /\ Job(y).status = "completed"
       /\ Job(y).endTime = MaxTs
       /\ RunningCount(agentMap) = 1 /\ CompletedCount(agentMap) = 1

\* ------------------------------------- logs of checklist writes and skills
TodoA == [content |-> "a", status |-> "pending", activeForm |-> "",
          priority |-> "high"]
TodoB == [content |-> "b", status |-> "in_progress", activeForm |-> "doing b",
          priority |-> "low"]
TodoLists == {<<>>, <<TodoA>>, <<TodoB, TodoA>>}

ListBlocks ==
  {ToolUse(OtherId, "TodoWrite", TodoWriteInput(t)) : t \in TodoLists}
  \cup {ToolUse(OtherId, "TodoWrite", NoInput),
        ToolUse(NoId, "TodoWrite", TodoWriteInput(<<TodoA>>)),
        ToolUse(OtherId, "TaskOutput", NoInput),
        ToolUse(OtherId, "Skill", SkillInput("ralph", "")),
        ToolUse(OtherId, "proxy_Skill", SkillInput("plan", "x")),
        ToolUse(OtherId, "Skill", NoInput),
        ToolUse(1, "Task", TaskInput("explore")),
        ToolResult(1, NoContent),
        TextBlock}

ListEntries ==
  {Entry(ts, <<b>>) : ts \in TimeStamps \cup {NoTime}, b \in ListBlocks}
  \cup {EntryNoContent(ts) : ts \in TimeStamps \cup {NoTime}}

NextChecklist ==
  \/ \E entry \in ListEntries : Fold(entry)
  \/ Finish

SpecChecklist == Init /\ [][NextChecklist]_vars

\* C7: the todos parseTranscript returns are the items, in order, of the
\* last TodoWrite invocation of the log that carried a list (none: empty);
\* no item of an earlier list is among them unless the last list holds it.
C7_LatestChecklistOnly ==
  pc = "done" =>
    /\ result.todos = TodoItems(lastWrite.todos)
    /\ \A i \in 1..Len(result.todos) :
         \A t \in lastWrite.earlier :
           result.todos[i] = TodoItem(t) =>
             \E k \in 1..Len(lastWrite.todos) : lastWrite.todos[k] = t

\* a later, shorter list replaced an earlier one: an item of the earlier
\* list is gone
C7_Witness ==
  /\ pc = "done"
  /\ result.todos = <<TodoItem(TodoA)>>
  /\ TodoB \in lastWrite.earlier

\* ---------------------------------------------------------- burst logs
\* A burst log launches the ids 1, 2, 3, ... in this order; the k-th of these
\* launches is stamped Min(k - 1, MaxLoadClock); the ids up to MaxLoadTouched
\* receive plain results and id 1 is launched again, in lines stamped like
\* the latest of these launches.
LoadCount == Cardinality(DOMAIN launched)
LoadTime(k) == Min(k - 1, MaxLoadClock)

LoadEntries ==
  (IF LoadCount < MaxLoadIds
   THEN {Entry(LoadTime(LoadCount + 1),
               <<ToolUse(LoadCount + 1, "Task", TaskInput("explore"))>>)}
   ELSE {})
  \cup {Entry(LoadTime(LoadCount), <<ToolResult(id, StringContent(<<"done">>))>>) :
          id \in 1..Min(LoadCount, MaxLoadTouched)}
  \cup {Entry(LoadTime(LoadCount), <<ToolUse(id, "Task", TaskInput("explore"))>>) :
          id \in 1..Min(LoadCount, 1)}

NextLoad ==
  \/ \E entry \in LoadEntries : Fold(entry)
  \/ Finish

SpecLoad == Init /\ [][NextLoad]_vars

\* C5: the tracked-job map never holds more than MAX_AGENT_MAP_SIZE jobs.
C5_AtMostCap == Len(agentMap) <= MAX_AGENT_MAP_SIZE

\* C6: a step that removes an id from the tracked-job map removes one id
\* only, of a job that was completed and whose start time no completed job
\* undercut; no running job is ever removed.
C6_EvictsOldestCompleted ==
  [][/\ Cardinality(Keys(agentMap) \ Keys(agentMap')) <= 1
     /\ \A id \in Keys(agentMap) \ Keys(agentMap') :
          /\ Job(id).status = "completed"
          /\ \A i \in 1..Len(agentMap) :
               agentMap[i].status = "completed" =>
                 Job(id).startTime <= agentMap[i].startTime]_vars

\* the map is at its cap after an eviction that passed over the oldest job,
\* still running, and took the completed job launched after it
C6_Witness ==
  /\ Len(agentMap) = MAX_AGENT_MAP_SIZE
  /\ Tracked(1) /\ Job(1).status = "running"
  /\ 2 \in DOMAIN launched /\ ~Tracked(2)

InReported(a) == \E k \in 1..Len(result.agents) : result.agents[k] = a

\* C8 as claimed: the reported list holds every job that runs after the
\* staleness pass.
C8_AllRunningReported ==
  pc = "done" =>
    \A i \in 1..Len(agentMap) :
      agentMap[i].status = "running" => InReported(agentMap[i])

\* C8 as amended: with at most 10 jobs running after the staleness pass the
\* reported list holds every one of them; with more it is the first 10 of
\* them in map order.
C8_RunningReportedUpToTen ==
  pc = "done" =>
    IF RunningCount(agentMap) <= MaxReported
    THEN \A i \in 1..Len(agentMap) :
           agentMap[i].status = "running" => InReported(agentMap[i])
    ELSE result.agents = SubSeq(Running(agentMap), 1, MaxReported)

\* more than 10 jobs run at the end, one was force-completed as stale
C8_Witness ==
  /\ pc = "done"
  /\ RunningCount(agentMap) > MaxReported
  /\ Len(result.agents) = MaxReported
  /\ CompletedCount(agentMap) > 0

\* C9: the reported list has at most 10 entries, and its completed jobs are
\* at most 10 minus its running jobs.
C9_AtMostTenReported ==
  pc = "done" =>
    /\ Len(result.agents) <= MaxReported
    /\ CompletedCount(result.agents) <= MaxReported - RunningCount(result.agents)
    /\ \A k \in 1..Len(result.agents) :
         \E i \in 1..Len(agentMap) : agentMap[i] = result.agents[k]

\* exactly 10 jobs run and completed ones exist: none of them is reported
C9_Witness ==
  /\ pc = "done"
  /\ RunningCount(agentMap) = MaxReported
  /\ CompletedCount(agentMap) > 1
  /\ Len(result.agents) = MaxReported

\* C10: no completed job left out of the reported list ended later than a
\* completed job in it.
C10_MostRecentlyCompleted ==
  pc = "done" =>
    \A i \in 1..Len(agentMap) :
      (agentMap[i].status = "completed" /\ ~InReported(agentMap[i])) =>
        \A k \in 1..Len(result.agents) :
          result.agents[k].status = "completed" =>
            agentMap[i].endTime <= result.agents[k].endTime

\* ============================================================ the log file
\* The file is a sequence of chunks of text, each with its length in bytes:
\*   "json"  the JSON text of one entry        "junk"  text that is no JSON
\*   "nl"    a line feed                        "cr"    a carriage return
\*   "pad"   a run of spaces
\* A read that starts inside a chunk yields its remainder, marked cut.
MAX_TAIL_BYTES == 512 * 1024
MaxChunks == 4
LineBytes == 3

NoEntry == EntryNoContent(NoTime)
Chunk(kind, bytes, entry) ==
  [kind |-> kind, bytes |-> bytes, entry |-> entry, cut |-> FALSE]
Json(entry) == Chunk("json", LineBytes, entry)
Junk == Chunk("junk", LineBytes, NoEntry)
LineFeed == Chunk("nl", 1, NoEntry)
Return == Chunk("cr", 1, NoEntry)
Pad(bytes) == Chunk("pad", bytes, NoEntry)

RECURSIVE Bytes(_)
Bytes(content) ==
  IF content = <<>> THEN 0 ELSE Head(content).bytes + Bytes(Tail(content))

\* readSync(fd, buffer, 0, fileSize - startOffset, startOffset): the bytes
\* of the file from startOffset to its end
RECURSIVE ReadFrom(_, _)
ReadFrom(content, startOffset) ==
  IF startOffset = 0 \/ content = <<>> THEN content
  ELSE IF Head(content).bytes <= startOffset
  THEN ReadFrom(Tail(content), startOffset - Head(content).bytes)
  ELSE <<[Head(content) EXCEPT !.bytes = @ - startOffset, !.cut = TRUE]>>
       \o Tail(content)

\* content.split('\n') when returns is FALSE; the line endings of readline
\* with crlfDelay Infinity when it is TRUE: \n, \r\n and a \r on its own
RECURSIVE SplitLines(_, _, _)
SplitLines(content, line, returns) ==
  IF content = <<>> THEN <<line>>
  ELSE LET c == Head(content)
           rest == Tail(content)
       IN IF c.kind = "nl" THEN <<line>> \o SplitLines(rest, <<>>, returns)
          ELSE IF returns /\ c.kind = "cr"
          THEN <<line>> \o
               SplitLines(IF rest # <<>> /\ Head(rest).kind = "nl"
                          THEN Tail(rest) ELSE rest, <<>>, returns)
          ELSE SplitLines(rest, Append(line, c), returns)

readTailLinesMutKeepFirst(content, fileSize, maxBytes) ==
  SplitLines(ReadFrom(content, Max(0, fileSize - maxBytes)), <<>>, FALSE)

readTailLines(content, fileSize, maxBytes) ==
  LET startOffset == Max(0, fileSize - maxBytes)
      ls == SplitLines(ReadFrom(content, startOffset), <<>>, FALSE)
  IN IF startOffset > 0 /\ Len(ls) > 0 THEN Tail(ls) ELSE ls

\* the lines of: for await (const line of rl); readline emits no last line
\* for a file that ends in a line ending
StreamLines(content) ==
  LET ls == SplitLines(content, <<>>, TRUE)
  IN IF ls[Len(ls)] = <<>> THEN SubSeq(ls, 1, Len(ls) - 1) ELSE ls

IsSpace(c) == c.kind \in {"cr", "pad"}
NonSpace(line) == SelectSeq(line, LAMBDA c : ~IsSpace(c))
\* !line.trim()
IsBlank(line) == NonSpace(line) = <<>>
\* JSON.parse(line) returns: the line is one whole JSON text between white
\* space; otherwise it throws
JsonParses(line) ==
  /\ Len(NonSpace(line)) = 1
  /\ NonSpace(line)[1].kind = "json"
  /\ ~NonSpace(line)[1].cut
JsonParse(line) == NonSpace(line)[1].entry

\* the catch around JSON.parse and processEntry: the loop goes on with the
\* lines that follow
SkipMalformedMutAbort(rest) == <<>>
SkipMalformed(rest) == rest

\* --------------------------------------------------------- actions, file
\* !transcriptPath || !existsSync(transcriptPath)
ReturnEmptyMutThrow ==
  /\ pc = "start"
  /\ file.status \in {"undefined", "missing"}
  /\ pc' = "raised"
  /\ UNCHANGED <<agentMap, backgroundAgentMap, latestTodos, result, now,
                 launched, acked, lastWrite, events, fileVars, usageVars, mainVars>>

ReturnEmpty ==
  /\ pc = "start"
  /\ file.status \in {"undefined", "missing"}
  /\ pc' = "done"
  /\ UNCHANGED <<agentMap, backgroundAgentMap, latestTodos, result, now,
                 launched, acked, lastWrite, events, fileVars, usageVars, mainVars>>

\* statSync, then the tail read or the stream; an I/O error lands in the
\* outer catch with no line taken
Open ==
  /\ pc = "start"
  /\ file.status \in {"present", "unreadable"}
  /\ LET fileSize == Bytes(file.content)
     IN IF file.status = "unreadable"
        THEN lines' = <<>> /\ UNCHANGED parsed
        ELSE IF fileSize > MAX_TAIL_BYTES
        THEN /\ lines' = readTailLines(file.content, fileSize, MAX_TAIL_BYTES)
             /\ parsed' = [parsed EXCEPT
                  !.read = fileSize - Max(0, fileSize - MAX_TAIL_BYTES)]
        ELSE /\ lines' = StreamLines(file.content)
             /\ parsed' = [parsed EXCEPT !.read = fileSize]
  /\ pc' = "folding"
  /\ UNCHANGED <<agentMap, backgroundAgentMap, latestTodos, result, now,
                 launched, acked, lastWrite, events, file, usageVars, mainVars>>

\* one turn of the loop over the lines
TakeLine ==
  /\ pc = "folding"
  /\ lines # <<>>
  /\ LET line == Head(lines)
     IN IF IsBlank(line)
        THEN /\ lines' = Tail(lines)
             /\ UNCHANGED <<agentMap, backgroundAgentMap, latestTodos, result,
                            pc, now, launched, acked, lastWrite, events, parsed>>
        ELSE /\ parsed' = [parsed EXCEPT !.lines = Append(@, line)]
             /\ IF JsonParses(line)
                THEN FoldEntry(JsonParse(line)) /\ lines' = Tail(lines)
                ELSE /\ lines' = SkipMalformed(Tail(lines))
                     /\ UNCHANGED <<agentMap, backgroundAgentMap, latestTodos,
                                    result, pc, now, launched, acked,
                                    lastWrite, events>>
  /\ UNCHANGED <<file, usageVars, mainVars>>

FinishFile == lines = <<>> /\ Finish

\* ------------------------------------------------------------- the files
FileEntries ==
  {Entry(0, <<ToolUse(1, "Task", TaskInput("explore"))>>),
   Entry(NoTime, <<ToolUse(OtherId, "TodoWrite", TodoWriteInput(<<TodoA>>))>>)}

Chunks ==
  {Json(e) : e \in FileEntries}
  \cup {Junk, LineFeed, Return,
        Pad(MAX_TAIL_BYTES - LineBytes - 1),
        Pad(MAX_TAIL_BYTES - LineBytes - 2)}

Contents == UNION {[1..n -> Chunks] : n \in 0..MaxChunks}

Files ==
  {[status |-> "present", content |-> c] : c \in Contents}
  \cup {[status |-> s, content |-> <<>>] :
          s \in {"undefined", "missing", "unreadable"}}

InitFile ==
  /\ InitTranscript /\ pc = "start"
  /\ file \in Files /\ lines = <<>>
  /\ parsed = [read |-> NoRead, lines |-> <<>>]
  /\ InitNoUsage /\ InitNoMain

NextFile == ReturnEmpty \/ Open \/ TakeLine \/ FinishFile

SpecFile == InitFile /\ [][NextFile]_vars

\* ------------------------------------------------------------ file claims
StartState ==
  [agentMap |-> <<>>, backgroundAgentMap |-> <<>>, latestTodos |-> <<>>,
   result |-> EmptyResult]

Reconstructed ==
  [agentMap |-> agentMap, backgroundAgentMap |-> backgroundAgentMap,
   latestTodos |-> latestTodos, result |-> result]

\* the fold of processEntry over lines that all hold an entry
RECURSIVE FoldParsed(_, _, _)
FoldParsed(st, ls, wallClock) ==
  IF ls = <<>> THEN st
  ELSE FoldParsed(processEntry(st, JsonParse(Head(ls)), wallClock), Tail(ls),
                  wallClock)

\* a list of lines with its blank and its malformed lines removed
WellFormed(ls) == SelectSeq(ls, JsonParses)

FileSize == Bytes(file.content)
Large == file.status = "present" /\ FileSize > MAX_TAIL_BYTES
Small == file.status = "present" /\ FileSize <= MAX_TAIL_BYTES
\* the lines of the log on the path parseTranscript takes for it
LogLines ==
  IF Large THEN readTailLines(file.content, FileSize, MAX_TAIL_BYTES)
  ELSE StreamLines(file.content)
AllTaken == pc = "folding" /\ lines = <<>>

\* C11: parseTranscript never raises; once every line is taken, the state
\* is the one the log without its malformed lines folds to, and a log with
\* no well-formed line leaves the state empty, to the end.
C11_MalformedSkipped ==
  /\ pc # "raised"
  /\ AllTaken => Reconstructed = FoldParsed(StartState, WellFormed(LogLines), now)
  /\ (pc \in {"folding", "done"} /\ WellFormed(LogLines) = <<>>) =>
       Reconstructed = StartState

\* a malformed line was handed to the parser and the line after it, well
\* formed, was folded
C11_Witness ==
  /\ AllTaken
  /\ \E i \in 1..(Len(parsed.lines) - 1) :
       ~JsonParses(parsed.lines[i]) /\ JsonParses(parsed.lines[i + 1])
  /\ Reconstructed # StartState

TailRead == ReadFrom(file.content, FileSize - MAX_TAIL_BYTES)
NotBlank(line) == ~IsBlank(line)

\* C12: of a log larger than MAX_TAIL_BYTES exactly the last MAX_TAIL_BYTES
\* bytes are read, the text before their first line feed is dropped, and no
\* line handed to the parser starts at the read offset inside the file.
C12_TailOnly ==
  (Large /\ pc \in {"folding", "done"}) =>
    /\ parsed.read = MAX_TAIL_BYTES
    /\ Bytes(TailRead) = MAX_TAIL_BYTES
    /\ parsed.lines \o SelectSeq(lines, NotBlank) =
         SelectSeq(Tail(SplitLines(TailRead, <<>>, FALSE)), NotBlank)
    /\ \A i \in 1..Len(parsed.lines) :
         \A k \in 1..Len(parsed.lines[i]) : ~parsed.lines[i][k].cut

\* the read started inside the JSON text of an entry, whose remainder was
\* dropped, and a later line was parsed
C12_Witness ==
  /\ Large /\ pc = "done"
  /\ TailRead[1].kind = "json" /\ TailRead[1].cut
  /\ parsed.lines # <<>>
  /\ Reconstructed # StartState

\* C13: for a log of at most MAX_TAIL_BYTES bytes the state after the last
\* line of the stream is the state the lines of readTailLines fold to.
C13_StreamEqualsTail ==
  (Small /\ AllTaken) =>
    Reconstructed =
      FoldParsed(StartState,
                 WellFormed(readTailLines(file.content, FileSize, MAX_TAIL_BYTES)),
                 now)

\* C14: with no path or no file parseTranscript returns the empty result
\* and does not throw.
C14_MissingReturnsEmpty ==
  /\ pc # "raised"
  /\ (pc = "done" /\ file.status \in {"undefined", "missing"}) =>
       /\ result = EmptyResult
       /\ lines = <<>> /\ parsed.read = NoRead

\* parseTranscript has returned for a path with no file behind it
C14_Witness == pc = "done" /\ file.status = "missing"

\* =========================================================== the usage API
CACHE_TTL_SUCCESS_MS == 60 * 1000
CACHE_TTL_FAILURE_MS == 15 * 1000
API_TIMEOUT_MS == 5000
\* the clock is followed for MaxPeriods periods of API_TIMEOUT_MS
MaxPeriods == 6
\* Date.now() when the model starts: a success entry written at 0 has
\* CACHE_TTL_FAILURE_MS left to live
StartTime == CACHE_TTL_SUCCESS_MS - CACHE_TTL_FAILURE_MS
Horizon == StartTime + MaxPeriods * API_TIMEOUT_MS

\* readCache: the parsed file, or null (NoCache)
readCache(c) == IF c.kind = "entry" THEN c ELSE NoCache
Cached(c) == c.kind = "entry"

isCacheValidMutOneTtl(c, t) == t - c.timestamp < CACHE_TTL_FAILURE_MS
isCacheValidMutInclusive(c, t) ==
  LET ttl == IF c.error THEN CACHE_TTL_FAILURE_MS ELSE CACHE_TTL_SUCCESS_MS
  IN t - c.timestamp <= ttl

\* t is Date.now()
isCacheValid(c, t) ==
  LET ttl == IF c.error THEN CACHE_TTL_FAILURE_MS ELSE CACHE_TTL_SUCCESS_MS
  IN t - c.timestamp < ttl

\* writeCache(data, error) at time t; a write that fails leaves the file
writeCache(old, data, error, t, ok) ==
  IF ok THEN CacheEntry(t, data, error) ELSE old

\* OAuthCredentials | null, with the stores that were read to get them
NoCredentials(read) ==
  [found |-> FALSE, accessToken |-> <<>>, expiresAt |-> NoExpiry,
   read |-> read]
Credentials(store, read) ==
  [found |-> TRUE, accessToken |-> store.accessToken,
   expiresAt |-> store.expiresAt, read |-> read]
Yields(store) == store.kind = "json" /\ store.accessToken # <<>>

readKeychainCredentials(c) ==
  IF c.platform # "darwin" THEN NoCredentials({})
  ELSE IF Yields(c.keychain) THEN Credentials(c.keychain, {"keychain"})
  ELSE NoCredentials({"keychain"})

readFileCredentials(c) ==
  IF Yields(c.file) THEN Credentials(c.file, {"file"})
  ELSE NoCredentials({"file"})

getCredentialsMutFileFirst(c) ==
  LET fileCreds == readFileCredentials(c)
      keychainCreds == readKeychainCredentials(c)
  IN IF fileCreds.found THEN fileCreds
     ELSE [keychainCreds EXCEPT !.read = @ \cup fileCreds.read]

getCredentials(c) ==
  LET keychainCreds == readKeychainCredentials(c)
      fileCreds == readFileCredentials(c)
  IN IF keychainCreds.found THEN keychainCreds
     ELSE [fileCreds EXCEPT !.read = @ \cup keychainCreds.read]

validateCredentials(c, t) ==
  /\ c.accessToken # <<>>
  /\ c.expiresAt # NoExpiry => ~(c.expiresAt <= t)

\* https.request throws on a header value with a character that may not
\* stand in a header (ERR_INVALID_CHAR)
HeaderSafe(accessToken) ==
  \A i \in 1..Len(accessToken) : accessToken[i] \notin {"\n", "\r"}

Num(v) == JsValue("number", v)
Null == JsValue("null", 0)
NaN == JsValue("NaN", 0)
Infinite(sign) == JsValue("Infinity", sign)
NumericString(v) == JsValue("numeric string", v)
Text == JsValue("string", 0)

\* response.five_hour?.utilization
Utilization(window) ==
  IF window.present THEN window.utilization ELSE Undefined
\* v == null
Nullish(v) == v.t \in {"undefined", "null"}
\* isFinite(v), which converts its argument to a number
isFinite(v) == v.t \in {"number", "numeric string"}

clampMutNoUpper(v) == IF Nullish(v) \/ ~isFinite(v) THEN 0 ELSE Max(0, v.v)

clamp(v) ==
  IF Nullish(v) \/ ~isFinite(v) THEN 0 ELSE Max(0, Min(100, v.v))

parseUsageResponse(response) ==
  LET fiveHour == Utilization(response.five_hour)
      sevenDay == Utilization(response.seven_day)
  IN IF Nullish(fiveHour) /\ Nullish(sevenDay) THEN NullLimits
     ELSE Limits(clamp(fiveHour), clamp(sevenDay))

\* the text of a response: text JSON.parse rejects, a falsy JSON value, or
\* a JSON value with the two windows
Garbage == [kind |-> "garbage", response |-> Response(NoWindow, NoWindow)]
Falsy == [kind |-> "falsy", response |-> Response(NoWindow, NoWindow)]
Object(response) == [kind |-> "object", response |-> response]
\* res.on('end'): what the promise resolves to, null when some is FALSE
Resolved(statusCode, body) ==
  IF statusCode = 200 /\ body.kind # "garbage"
  THEN [some |-> body.kind = "object", response |-> body.response]
  ELSE [some |-> FALSE, response |-> body.response]

\* what a call finds, in the terms of the claims: an entry less than 60 s
\* old (15 s for a failure entry) is fresh, the credentials are those of the
\* keychain if it holds a token on macOS, else those of the file
EntryAge(c, t) ==
  IF c.kind # "entry" THEN "none"
  ELSE IF c.error
  THEN IF t - c.timestamp < CACHE_TTL_FAILURE_MS THEN "fresh"
       ELSE "stale failure"
  ELSE IF t - c.timestamp < CACHE_TTL_SUCCESS_MS THEN "fresh"
       ELSE "stale success"

KeychainYields(c) == c.platform = "darwin" /\ Yields(c.keychain)
Chosen(c) == IF KeychainYields(c) THEN c.keychain ELSE c.file
CredentialsAge(c, t) ==
  IF ~Yields(Chosen(c)) THEN "none"
  ELSE IF Chosen(c).expiresAt # NoExpiry /\ Chosen(c).expiresAt <= t
  THEN "expired"
  ELSE "unexpired"

\* -------------------------------------------------------- actions, usage
\* getUsage up to its await: cache check, credentials, request sent
GetUsage ==
  /\ call.state # "pending"
  /\ LET c == readCache(cache)
         cr == getCredentials(creds)
         started == [NoCall EXCEPT !.entry = EntryAge(cache, time),
                                   !.credentials = CredentialsAge(creds, time)]
     IN IF Cached(c) /\ isCacheValid(c, time)
        THEN /\ call' = [started EXCEPT !.state = "returned", !.ret = c.data]
             /\ UNCHANGED <<cache, req>>
        ELSE IF ~cr.found \/ ~validateCredentials(cr, time)
        THEN \E ok \in BOOLEAN :
               /\ cache' = writeCache(cache, NullLimits, TRUE, time, ok)
               /\ call' = [started EXCEPT
                    !.state = "returned", !.stores = cr.read,
                    !.wrote = [attempted |-> TRUE, data |-> NullLimits,
                               error |-> TRUE],
                    !.stored = ok]
               /\ UNCHANGED req
        ELSE IF ~HeaderSafe(cr.accessToken)
        THEN /\ call' = [started EXCEPT !.state = "rejected",
                                        !.stores = cr.read]
             /\ UNCHANGED <<cache, req>>
        ELSE /\ call' = [started EXCEPT
                  !.state = "pending", !.stores = cr.read, !.requests = 1,
                  !.accessToken = cr.accessToken]
             /\ req' = [open |-> TRUE, idle |-> 0,
                        accessToken |-> cr.accessToken]
             /\ UNCHANGED cache
  /\ UNCHANGED <<time, creds, transcriptVars, fileVars, mainVars>>

\* getUsage after its await: !response, parseUsageResponse, writeCache
Settle(some, response, destroyed) ==
  \E ok \in BOOLEAN :
    LET usage == IF some THEN parseUsageResponse(response) ELSE NullLimits
    IN /\ cache' = writeCache(cache, usage, usage.null, time, ok)
       /\ call' = [call EXCEPT
            !.state = "returned", !.fetched = some, !.response = response,
            !.destroyed = destroyed,
            !.wrote = [attempted |-> TRUE, data |-> usage,
                       error |-> usage.null],
            !.stored = ok, !.ret = usage]
       /\ req' = NoRequest
       /\ UNCHANGED <<time, creds, transcriptVars, fileVars, mainVars>>

\* res.on('end')
ResponseEnd(statusCode, body) ==
  /\ req.open
  /\ Settle(Resolved(statusCode, body).some,
            Resolved(statusCode, body).response, FALSE)

\* req.on('error')
RequestError == req.open /\ Settle(FALSE, Response(NoWindow, NoWindow), FALSE)

\* req.on('timeout'): the socket was idle for API_TIMEOUT_MS
RequestTimeout ==
  /\ req.open /\ req.idle = API_TIMEOUT_MS
  /\ Settle(FALSE, Response(NoWindow, NoWindow), TRUE)

\* res.on('data'), like every byte that moves on the socket, restarts the
\* idle timer
ResponseData ==
  /\ req.open /\ req.idle < API_TIMEOUT_MS
  /\ req' = [req EXCEPT !.idle = 0]
  /\ UNCHANGED <<time, cache, creds, call, transcriptVars, fileVars, mainVars>>

\* Time passes to the next instant told apart: the multiples of
\* API_TIMEOUT_MS and the millisecond before each.  Past Horizon the clock
\* reading stays, the idle timer of a request still runs.
Tick ==
  LET d == IF time % API_TIMEOUT_MS = 0 THEN API_TIMEOUT_MS - 1 ELSE 1
  IN /\ IF req.open THEN req.idle < API_TIMEOUT_MS ELSE time < Horizon
     /\ time' = IF time < Horizon THEN time + d ELSE time
     /\ req' = IF req.open
               THEN [req EXCEPT !.idle = Min(@ + d, API_TIMEOUT_MS)]
               ELSE req
     /\ UNCHANGED <<cache, creds, call, transcriptVars, fileVars, mainVars>>

\* ------------------------------------------------------ the environments
KeychainToken == <<"k", "c">>
FileToken == <<"f">>
BrokenToken == <<"f", "\n">>
\* credentials that expire while the clock is followed
Expiry == CACHE_TTL_SUCCESS_MS

Platforms ==
  {[platform |-> "linux", keychain |-> NoStore, file |-> NoStore],
   [platform |-> "linux", keychain |-> NoStore,
    file |-> Stored(FileToken, Expiry)],
   [platform |-> "linux", keychain |-> Stored(KeychainToken, NoExpiry),
    file |-> CorruptStore],
   [platform |-> "linux", keychain |-> NoStore,
    file |-> Stored(BrokenToken, NoExpiry)],
   [platform |-> "darwin", keychain |-> Stored(KeychainToken, NoExpiry),
    file |-> Stored(FileToken, NoExpiry)],
   [platform |-> "darwin", keychain |-> Stored(KeychainToken, 0),
    file |-> Stored(FileToken, NoExpiry)],
   [platform |-> "darwin", keychain |-> CorruptStore,
    file |-> Stored(FileToken, NoExpiry)]}

InitCaches ==
  {NoCache, CorruptCache, CacheEntry(StartTime, NullLimits, TRUE),
   CacheEntry(0, Limits(42, 7), FALSE)}

StatusCodes == {200, 500}
Bodies ==
  {Garbage, Falsy, Object(Response(NoWindow, NoWindow)),
   Object(Response(Window(Num(150)), NoWindow))}

InitUsage ==
  /\ InitTranscript /\ pc = "folding" /\ InitNoFile
  /\ time = StartTime /\ cache \in InitCaches /\ creds \in Platforms
  /\ req = NoRequest /\ call = NoCall
  /\ InitNoMain

NextUsage ==
  \/ GetUsage
  \/ \E statusCode \in StatusCodes, body \in Bodies :
       ResponseEnd(statusCode, body)
  \/ RequestError
  \/ RequestTimeout
  \/ ResponseData
  \/ Tick

SpecUsage == InitUsage /\ [][NextUsage]_vars

\* liveness: time passes, and a timer that has run out fires
SpecUsageFair == SpecUsage /\ WF_vars(Tick) /\ WF_vars(RequestTimeout)

\* ---------------------------------------------- responses of every shape
UtilizationValues ==
  {Undefined, Null, NaN, Infinite(1), Infinite(-1), Num(-1), Num(0), Num(42),
   Num(100), Num(101), NumericString(50), Text}
Windows == {NoWindow} \cup {Window(v) : v \in UtilizationValues}
Responses == {Response(fiveHour, sevenDay) : fiveHour, sevenDay \in Windows}

InitParse ==
  /\ InitTranscript /\ pc = "folding" /\ InitNoFile
  /\ time = StartTime /\ cache = NoCache
  /\ creds = [platform |-> "linux", keychain |-> NoStore,
              file |-> Stored(FileToken, NoExpiry)]
  /\ req = NoRequest /\ call = NoCall
  /\ InitNoMain

NextParse ==
  \/ GetUsage
  \/ \E response \in Responses : ResponseEnd(200, Object(response))

SpecParse == InitParse /\ [][NextParse]_vars

\* ----------------------------------------------------------- usage claims
FailureWrite == [attempted |-> TRUE, data |-> NullLimits, error |-> TRUE]
FailureEntry == cache.kind = "entry" /\ cache.error /\ cache.data.null

\* C15: a call that finds a fresh entry returns that entry's data and reads
\* no credential store, sends no request and writes no cache; two calls in
\* a row served from a fresh success entry return the same value.
C15_FreshEntryServed ==
  /\ []((call.state # "none" /\ call.entry = "fresh") =>
          /\ call.state = "returned"
          /\ call.stores = {} /\ call.requests = 0 /\ ~req.open
          /\ ~call.wrote.attempted
          /\ call.ret = cache.data)
  /\ [][(/\ call.state = "returned" /\ call.entry = "fresh" /\ ~cache.error
         /\ call'.state = "returned" /\ call'.entry = "fresh")
        => call'.ret = call.ret]_vars

\* a success entry older than the failure TTL was served
C15_Witness ==
  /\ call.state = "returned" /\ call.entry = "fresh"
  /\ cache.kind = "entry" /\ ~cache.error
  /\ time - cache.timestamp >= CACHE_TTL_FAILURE_MS
  /\ call.ret = cache.data /\ ~call.ret.null

Usable ==
  call.credentials = "unexpired" /\ HeaderSafe(Chosen(creds).accessToken)

\* C16: with unexpired credentials a call that finds no fresh entry sends
\* one request, no call has more than one, and a call that finds a fresh
\* entry sends none.
C16_OneRequest ==
  /\ (call.state \in {"pending", "returned"} /\ call.entry # "fresh" /\ Usable)
       => call.requests = 1
  /\ call.requests <= 1
  /\ req.open => (call.state = "pending" /\ call.requests = 1)
  /\ (call.state # "none" /\ call.entry = "fresh") => call.requests = 0

\* the failure entry had run out, one request was sent, its result stored
C16_Witness ==
  /\ call.state = "returned" /\ call.entry = "stale failure"
  /\ call.requests = 1 /\ call.fetched /\ call.stored
  /\ cache.timestamp = time /\ ~cache.error

BothAbsent(response) ==
  /\ Nullish(Utilization(response.five_hour))
  /\ Nullish(Utilization(response.seven_day))

\* C17: no call is rejected; a call that found no fresh entry and had no
\* usable credentials, no response or a response with neither utilization
\* returns null after writing a failure entry, which the cache holds unless
\* the write failed.
C17_NeverRejects ==
  /\ call.state # "rejected"
  /\ (/\ call.state = "returned" /\ call.entry # "fresh"
      /\ \/ call.credentials # "unexpired"
         \/ ~call.fetched
         \/ BothAbsent(call.response))
     => /\ call.ret.null
        /\ call.wrote = FailureWrite
        /\ call.stored => FailureEntry

Absent(window) ==
  ~window.present \/ window.utilization.t \in {"undefined", "null"}
Clamped(window) ==
  IF Absent(window) \/ window.utilization.t \notin {"number", "numeric string"}
  THEN 0
  ELSE IF window.utilization.v < 0 THEN 0
  ELSE IF window.utilization.v > 100 THEN 100
  ELSE window.utilization.v

\* C18: the value returned for a response is null exactly when both
\* utilizations are absent; otherwise its percentages are the utilizations
\* clamped to 0..100, 0 for an absent or non-finite one; the cache write
\* carries the same value, as a failure exactly when it is null.
C18_Clamped ==
  (call.state = "returned" /\ call.fetched) =>
    /\ call.ret.null <=>
         (Absent(call.response.five_hour) /\ Absent(call.response.seven_day))
    /\ ~call.ret.null =>
         /\ call.ret.fiveHourPercent = Clamped(call.response.five_hour)
         /\ call.ret.weeklyPercent = Clamped(call.response.seven_day)
    /\ call.ret.fiveHourPercent \in 0..100
    /\ call.ret.weeklyPercent \in 0..100
    /\ call.wrote =
         [attempted |-> TRUE, data |-> call.ret, error |-> call.ret.null]

\* a utilization above 100 and an infinite one came back as 100 and 0
C18_Witness ==
  /\ call.state = "returned" /\ call.fetched
  /\ call.response = Response(Window(Num(101)), Window(Infinite(1)))
  /\ call.ret = Limits(100, 0)

\* C19: a call that finds no fresh entry reads the credentials file exactly
\* when the keychain yields no token, sends the token of the store chosen
\* that way, and with no credentials or expired ones writes a failure entry
\* and returns null with no request sent.
C19_CredentialsOrder ==
  (call.state # "none" /\ call.entry # "fresh") =>
    /\ "file" \in call.stores <=> ~KeychainYields(creds)
    /\ call.requests = 1 => call.accessToken = Chosen(creds).accessToken
    /\ call.credentials \in {"none", "expired"} =>
         /\ call.state = "returned" /\ call.ret.null
         /\ call.requests = 0 /\ ~req.open
         /\ call.wrote = FailureWrite
         /\ call.stored => FailureEntry

\* the keychain token had expired; the file, with a token, was not read
C19_Witness ==
  /\ call.state = "returned" /\ call.credentials = "expired"
  /\ creds.platform = "darwin" /\ Yields(creds.file)
  /\ call.stores = {"keychain"} /\ call.ret.null /\ call.stored

\* C20: a call that awaits its request returns.
C20_EventuallyReturns ==
  (call.state = "pending") ~> (call.state = "returned")

\* ------------------------------------------------ the polling interval
\* "The HUD updates automatically every ~300ms during active sessions."
POLL_INTERVAL_MS == 300

\* C21: a request of getUsage is never still open once a polling interval
\* has passed on it, the next invocation of the entry point being due then.
C21_SettledByNextTick == req.open => req.idle < POLL_INTERVAL_MS

\* -------------------------------------------------- the correlation map
\* C27: the correlation map holds no token whose job was completed by a
\* completion report for that token.
C27_ResolvedTokenDiscarded ==
  \A t \in DOMAIN backgroundAgentMap :
    backgroundAgentMap[t] \in DOMAIN launched =>
      launched[backgroundAgentMap[t]].seen # "report"

C29_LastSkillSlot == result.lastActivatedSkill = events.skill

\* a second skill took the slot from the first, and an invocation that names
\* no skill, a checklist write and a launch passed over it
C29_Witness ==
  /\ result.lastActivatedSkill = [name |-> "plan", args |-> "x", timestamp |-> 1]
  /\ result.sessionStart = 0
  /\ latestTodos # <<>>
  /\ agentMap # <<>>

\* ------------------------------------------------------------------ main
\* A text is the sequence of its lexemes; the space and the no-break space
\* U+00A0 are lexemes of their own.
Space == " "
Nbsp == "U+00A0"
Waiting == <<"[SISYPHUS]", Space, "waiting...">>
ErrorText == <<"[SISYPHUS]", Space, "error">>

\* output.replace(/ /g, '\u00A0')
replaceSpaces(output) ==
  [i \in 1..Len(output) |-> IF output[i] = Space THEN Nbsp ELSE output[i]]

\* console.log(text)
Log(h, text) == [h EXCEPT !.output = Append(@, text)]

CatchMutRethrow(h) ==
  [h EXCEPT !.failed = TRUE, !.raised = TRUE, !.pc = "ended"]

\* catch (error) { console.log('[SISYPHUS] error'); }
Catch(h) == Log([h EXCEPT !.failed = TRUE, !.pc = "ended"], ErrorText)

UsageEnabledMutAlways(config) == TRUE

\* config.elements.rateLimits !== false
UsageEnabled(config) == config.elements.rateLimits # FALSE

\* the escape sequences of the elements, written with ESC for \x1b
RESET == "ESC[0m"
GREEN == "ESC[32m"
YELLOW == "ESC[33m"
RED == "ESC[31m"
DIM == "ESC[2m"
CYAN == "ESC[36m"
MAGENTA == "ESC[35m"
BRIGHT_MAGENTA == "ESC[95m"

WARNING_THRESHOLD == 70
CRITICAL_THRESHOLD == 90

\* The elements take their numbers in tenths, so that a percentage with a
\* fraction can be told from a whole one.  Math.round: to the nearest
\* integer, a half towards +Infinity.
InTenths(limits) ==
  [limits EXCEPT !.fiveHourPercent = 10 * @, !.weeklyPercent = 10 * @]
MathRound(tenths) == (tenths + 5) \div 10

getColorMutExclusive(percent) ==
  IF percent > CRITICAL_THRESHOLD THEN RED
  ELSE IF percent > WARNING_THRESHOLD THEN YELLOW
  ELSE GREEN

getColor(percent) ==
  IF percent >= CRITICAL_THRESHOLD THEN RED
  ELSE IF percent >= WARNING_THRESHOLD THEN YELLOW
  ELSE GREEN

\* what an element returns when it returns null
NoElement == <<>>

\* renderRateLimits; the percentages of limits are in tenths
renderRateLimits(limits) ==
  IF limits.null THEN NoElement
  ELSE LET fiveHour == Min(100, Max(0, MathRound(limits.fiveHourPercent)))
           weekly == Min(100, Max(0, MathRound(limits.weeklyPercent)))
       IN <<"5h:", getColor(fiveHour), ToString(fiveHour), "%", RESET,
            Space, DIM, "wk:", RESET, getColor(weekly), ToString(weekly),
            "%", RESET>>

\* renderAgents: the number of the agents that run
renderAgents(agents) ==
  LET running == Len(SelectSeq(agents, LAMBDA a : a.status = "running"))
  IN IF running = 0 THEN NoElement
     ELSE <<"agents:", CYAN, ToString(running), RESET>>

\* state?.active
IsActive(state) == ~state.null /\ state.active

\* renderSkills: the badge of ultrawork, of ralph, or of both
renderSkills(ultrawork, ralph) ==
  IF IsActive(ralph) /\ IsActive(ultrawork)
  THEN <<BRIGHT_MAGENTA, "ultrawork-ralph", RESET>>
  ELSE IF IsActive(ultrawork) THEN <<MAGENTA, "ultrawork", RESET>>
  ELSE IF IsActive(ralph) THEN <<MAGENTA, "ralph", RESET>>
  ELSE NoElement

\* render: the label, the rate limits element, then the elements and lines
\* of the rest of the context
render(context, config) ==
  <<"[SISYPHUS]">>
  \o (IF config.elements.rateLimits /\ ~context.rateLimits.null
      THEN <<Space>> \o renderRateLimits(InTenths(context.rateLimits))
      ELSE <<>>)
  \o context.rest

\* lines 79-102: the context, render, the replacement, console.log; raises:
\* render or a getter of the context threw
RenderAndLog(h, rest, raises) ==
  IF raises THEN Catch(h)
  ELSE LET context == [rateLimits |-> h.rateLimits, rest |-> rest]
           output == render(context, h.config)
       IN Log([h EXCEPT !.rendered = output, !.pc = "ended"],
              replaceSpaces(output))

\* what the other elements add to the output of render
Rests ==
  {<<>>,
   <<Space, "|", Space, "ctx:42%">>,
   <<Space, "ralph:1/10", "\n", Nbsp, Space, "todos:", Space, Space, "1/2">>}

\* await readStdin() settled; up to await parseTranscript
StdinSettled(stdin) ==
  /\ hud.pc = "readStdin"
  /\ hud' = CASE stdin = "rejected" -> Catch([hud EXCEPT !.stdin = stdin])
              [] stdin = "none" ->
                   Log([hud EXCEPT !.stdin = stdin, !.pc = "ended"], Waiting)
              [] stdin = "object" ->
                   [hud EXCEPT !.stdin = stdin, !.pc = "parseTranscript",
                               !.calls = @ \cup {"parseTranscript"}]
  /\ UNCHANGED <<transcriptVars, fileVars, usageVars, workdir, registry, race, last, pure>>

\* await parseTranscript settled; the state readers, readHudState,
\* readHudConfig (raises: one of them threw), then await getUsage, or with
\* the element disabled on to the output
TranscriptSettled(rateLimits, raises, rest, renderRaises) ==
  /\ hud.pc = "parseTranscript"
  /\ LET h == [hud EXCEPT
                 !.calls = @ \cup {"readRalphStateForHud",
                                   "readUltraworkStateForHud",
                                   "readPrdStateForHud", "readHudState",
                                   "readHudConfig"},
                 !.config = HudConfig(rateLimits)]
     IN hud' = IF raises THEN Catch([hud EXCEPT !.calls = h.calls])
               ELSE IF UsageEnabled(h.config)
               THEN [h EXCEPT !.pc = "getUsage",
                              !.calls = @ \cup {"getUsage"}]
               ELSE RenderAndLog([h EXCEPT !.rateLimits = NullLimits], rest,
                                 renderRaises)
  /\ UNCHANGED <<transcriptVars, fileVars, usageVars, workdir, registry, race, last, pure>>

\* the call of getUsage that main awaits
MainGetUsage == hud.pc = "getUsage" /\ call.state = "none" /\ GetUsage

\* await getUsage() settled; on to the output
UsageSettled(rest, renderRaises) ==
  /\ hud.pc = "getUsage"
  /\ call.state \in {"returned", "rejected"}
  /\ hud' = IF call.state = "rejected" THEN Catch(hud)
            ELSE RenderAndLog([hud EXCEPT !.rateLimits = call.ret], rest,
                              renderRaises)
  /\ UNCHANGED <<transcriptVars, fileVars, usageVars, workdir, registry, race, last, pure>>

InitMain ==
  /\ InitTranscript /\ pc = "folding" /\ InitNoFile
  /\ time = StartTime /\ cache \in InitCaches /\ creds \in Platforms
  /\ req = NoRequest /\ call = NoCall
  /\ hud = [NoMain EXCEPT !.pc = "readStdin"] /\ workdir = NoReader
  /\ registry = NoRegistry /\ race = NoRace /\ last = NoLast /\ pure = NoPure

NextMain ==
  \/ \E stdin \in {"none", "object", "rejected"} : StdinSettled(stdin)
  \/ \E rateLimits, raises, renderRaises \in BOOLEAN, rest \in Rests :
       TranscriptSettled(rateLimits, raises, rest, renderRaises)
  \/ MainGetUsage
  \/ \E statusCode \in StatusCodes, body \in Bodies :
       ResponseEnd(statusCode, body)
  \/ RequestError
  \/ RequestTimeout
  \/ ResponseData
  \/ Tick
  \/ \E renderRaises \in BOOLEAN, rest \in Rests :
       UsageSettled(rest, renderRaises)

SpecMain == InitMain /\ [][NextMain]_vars

Ended == hud.pc = "ended"

\* C23: no exception leaves main; main writes nothing before it ends and has
\* written exactly one text when it has ended: the waiting placeholder when
\* readStdin gave nothing (and then nothing else was called), the error
\* placeholder when a step raised, the rendered status otherwise.
C23_OneOutput ==
  /\ ~hud.raised
  /\ ~Ended => hud.output = <<>>
  /\ Ended =>
       /\ Len(hud.output) = 1
       /\ hud.stdin = "none" =>
            /\ hud.output[1] = Waiting
            /\ hud.calls = {} /\ call = NoCall /\ ~req.open
       /\ hud.failed => hud.output[1] = ErrorText
       /\ (hud.stdin = "object" /\ ~hud.failed) =>
            hud.output[1] = replaceSpaces(hud.rendered)

\* getUsage rejected, and main wrote the error placeholder and nothing else
C23_Witness ==
  /\ Ended /\ call.state = "rejected" /\ hud.failed
  /\ hud.output = <<ErrorText>>

\* C24: no text main has written holds a literal space.
C24_NoLiteralSpace ==
  \A i \in 1..Len(hud.output) : ~Includes(hud.output[i], Space)

\* C25: getUsage is called only with the rate limits element enabled, and an
\* invocation that has read a configuration with the element disabled never
\* calls getUsage (no cache, credentials or network access), has null rate
\* limits in its context and no rate limits element in what it renders.
C25_UsageOnlyIfEnabled ==
  /\ (call # NoCall \/ req.open \/ "getUsage" \in hud.calls) =>
       hud.config.elements.rateLimits
  /\ ("readHudConfig" \in hud.calls /\ ~hud.config.elements.rateLimits) =>
       /\ call = NoCall /\ ~req.open
       /\ hud.rateLimits.null
       /\ ~Includes(hud.rendered, "5h:")
       /\ \A i \in 1..Len(hud.output) : ~Includes(hud.output[i], "5h:")

\* the element was disabled while the cache held a fresh entry with data; the
\* status was rendered without it
C25_Witness ==
  /\ Ended /\ ~hud.failed /\ hud.stdin = "object"
  /\ ~hud.config.elements.rateLimits
  /\ Cached(readCache(cache)) /\ isCacheValid(readCache(cache), time)
  /\ ~readCache(cache).data.null
  /\ hud.output = <<replaceSpaces(hud.rendered)>>

\* ------------------------------------------------------ the state readers
\* existsSync(path)
Exists(f) == f.kind # "absent"
\* JSON.parse(readFileSync(path)) does not throw
Parses(f) == f.kind \in {"null", "object"}

\* readRalphStateForHud: .sisyphus/ralph-state.json; state.active of null
\* throws inside the try
readRalphStateForHud(files) ==
  LET state == files.ralph
  IN IF ~Exists(state) THEN NullView
     ELSE IF ~Parses(state) \/ state.kind = "null" THEN NullView
     ELSE IF ~state.active THEN NullView
     ELSE [NullView EXCEPT !.null = FALSE, !.active = state.active,
                           !.count = state.count,
                           !.max = state.max]

\* the end of readUltraworkStateForHud: !state || !state.active
UltraworkView(state) ==
  IF state.kind = "null" \/ ~state.active THEN NullView
  ELSE [NullView EXCEPT !.null = FALSE, !.active = state.active,
                        !.count = state.count]

\* the local file of readUltraworkStateForHud: null when absent or not
\* parseable
LocalState(files) ==
  IF Exists(files.ultraworkLocal) /\ Parses(files.ultraworkLocal)
  THEN files.ultraworkLocal
  ELSE NullFile

readUltraworkStateForHudMutLocalOnly(files) == UltraworkView(LocalState(files))

readUltraworkStateForHudMutActiveFirst(files) ==
  IF UltraworkView(LocalState(files)).null /\ Exists(files.ultraworkGlobal)
  THEN IF ~Parses(files.ultraworkGlobal) THEN NullView
       ELSE UltraworkView(files.ultraworkGlobal)
  ELSE UltraworkView(LocalState(files))

\* readUltraworkStateForHud: .sisyphus/ultrawork-state.json, then
\* ~/.claude/ultrawork-state.json
readUltraworkStateForHud(files) ==
  IF LocalState(files).kind = "null" /\ Exists(files.ultraworkGlobal)
  THEN IF ~Parses(files.ultraworkGlobal) THEN NullView
       ELSE UltraworkView(files.ultraworkGlobal)
  ELSE UltraworkView(LocalState(files))

\* stories.filter(...)
Passed(stories) == SelectSeq(stories, LAMBDA st : st.passes)
Incomplete(stories) == SelectSeq(stories, LAMBDA st : ~st.passes)

FirstByPriorityMutFileOrder(stories) == stories[1]

\* the head of a stable sort by priority: the first of the items of least
\* priority
FirstByPriority(stories) ==
  stories[CHOOSE i \in 1..Len(stories) :
            /\ \A j \in 1..Len(stories) :
                 stories[i].priority <= stories[j].priority
            /\ \A j \in 1..(i - 1) :
                 stories[j].priority > stories[i].priority]

\* readPrdStateForHud: prd.json, then .sisyphus/prd.json
readPrdStateForHud(files) ==
  IF ~Exists(files.prdRoot) /\ ~Exists(files.prdSisyphus) THEN NullView
  ELSE LET prd == IF Exists(files.prdRoot) THEN files.prdRoot
                  ELSE files.prdSisyphus
       IN IF ~Parses(prd) \/ prd.kind = "null" THEN NullView
          ELSE IF ~prd.userStories.isArray THEN NullView
          ELSE LET stories == prd.userStories.items
               IN [NullView EXCEPT
                     !.null = FALSE,
                     !.currentStoryId =
                        IF Incomplete(stories) = <<>> THEN ""
                        ELSE FirstByPriority(Incomplete(stories)).id,
                     !.completed = Len(Passed(stories)),
                     !.total = Len(stories)]

ReadRalph ==
  /\ workdir' = [workdir EXCEPT !.reader = "ralph",
                                !.ret = readRalphStateForHud(workdir.files)]
  /\ UNCHANGED <<transcriptVars, fileVars, usageVars, hud, registry, race, last, pure>>

ReadUltrawork ==
  /\ workdir' = [workdir EXCEPT
                   !.reader = "ultrawork",
                   !.ret = readUltraworkStateForHud(workdir.files)]
  /\ UNCHANGED <<transcriptVars, fileVars, usageVars, hud, registry, race, last, pure>>

ReadPrd ==
  /\ workdir' = [workdir EXCEPT !.reader = "prd",
                                !.ret = readPrdStateForHud(workdir.files)]
  /\ UNCHANGED <<transcriptVars, fileVars, usageVars, hud, registry, race, last, pure>>

\* the files the readers may find
Story(id, passes, priority) ==
  [id |-> id, passes |-> passes, priority |-> priority]
StateFiles ==
  {NoFileAt, CorruptFile, NullFile, StateFile(FALSE, 1, 10),
   StateFile(TRUE, 3, 10)}
PrdFiles ==
  {NoFileAt, CorruptFile, StateFile(TRUE, 3, 10),
   PrdFile(<<Story("US-1", TRUE, 1), Story("US-2", FALSE, 3),
             Story("US-3", FALSE, 2), Story("US-4", FALSE, 2)>>),
   PrdFile(<<Story("US-1", TRUE, 1)>>)}

InitReaders ==
  /\ InitTranscript /\ pc = "folding" /\ InitNoFile /\ InitNoUsage
  /\ hud = NoMain /\ registry = NoRegistry /\ race = NoRace
  /\ last = NoLast /\ pure = NoPure
  /\ \E r, l, g \in StateFiles, p, q \in PrdFiles :
       workdir = [NoReader EXCEPT
                    !.files = [ralph |-> r, ultraworkLocal |-> l,
                               ultraworkGlobal |-> g, prdRoot |-> p,
                               prdSisyphus |-> q]]

NextReaders == ReadRalph \/ ReadUltrawork \/ ReadPrd

SpecReaders == InitReaders /\ [][NextReaders]_vars

\* a file a reader can make no view from
Unusable(f) == f.kind \in {"absent", "corrupt"}
Inactive(f) == Unusable(f) \/ (f.kind = "object" /\ ~f.active)

Consulted(reader, files) ==
  CASE reader = "ralph" -> files.ralph
    [] reader = "ultrawork" ->
         IF files.ultraworkLocal.kind = "object" THEN files.ultraworkLocal
         ELSE files.ultraworkGlobal
    [] reader = "prd" ->
         IF files.prdRoot.kind # "absent" THEN files.prdRoot
         ELSE files.prdSisyphus

ReaderAnswer ==
  workdir.reader # "none" =>
    LET f == Consulted(workdir.reader, workdir.files)
        ret == workdir.ret
    IN /\ ~workdir.raised
       /\ ret.null <=>
            \/ f.kind # "object"
            \/ workdir.reader \in {"ralph", "ultrawork"} /\ ~f.active
            \/ workdir.reader = "prd" /\ ~f.userStories.isArray
       /\ (~ret.null /\ workdir.reader = "ralph") =>
            ret = [NullView EXCEPT !.null = FALSE, !.active = TRUE,
                                   !.count = f.count, !.max = f.max]
       /\ (~ret.null /\ workdir.reader = "ultrawork") =>
            ret = [NullView EXCEPT !.null = FALSE, !.active = TRUE,
                                   !.count = f.count]
       /\ (~ret.null /\ workdir.reader = "prd") =>
            LET stories == f.userStories.items
                open == {i \in 1..Len(stories) : ~stories[i].passes}
            IN /\ ret.total = Len(stories)
               /\ ret.completed = Len(stories) - Cardinality(open)
               /\ ret.active = FALSE /\ ret.count = 0 /\ ret.max = 0
               /\ IF open = {} THEN ret.currentStoryId = ""
                  ELSE \E i \in open :
                         /\ ret.currentStoryId = stories[i].id
                         /\ \A j \in open :
                              \/ stories[j].priority > stories[i].priority
                              \/ stories[j].priority = stories[i].priority
                                 /\ j >= i

DeleteMutStopOnFailure(r, path, applicable) ==
  IF r.success /\ applicable /\ r.files[path] = "present"
  THEN [r EXCEPT !.files[path] = "absent",
                 !.attempted = @ \cup {path}]
  ELSE IF r.success /\ applicable /\ r.files[path] = "locked"
  THEN [r EXCEPT !.success = FALSE, !.attempted = @ \cup {path}]
  ELSE r

\* if (path && existsSync(path)) { try { unlinkSync(path) } catch {
\* success = false } }
Delete(r, path, applicable) ==
  IF applicable /\ r.files[path] # "absent"
  THEN IF r.files[path] = "locked"
       THEN [r EXCEPT !.success = FALSE, !.attempted = @ \cup {path}]
       ELSE [r EXCEPT !.files[path] = "absent",
                      !.attempted = @ \cup {path}]
  ELSE r

\* clearModeState(mode, cwd) on the files: the files left, the paths
\* unlinkSync was called on, the value returned
clearModeState(files, mode) ==
  LET config == MODE_CONFIGS[mode]
      r0 == [files |-> files, attempted |-> {}, success |-> TRUE]
      r1 == Delete(r0, getStateFilePath(mode), TRUE)
      r2 == Delete(r1, getMarkerFilePath(mode), config.markerFile)
  IN Delete(r2, getGlobalStateFilePath(mode), config.hasGlobalState)

hasModeState(files, mode) == files[getStateFilePath(mode)] # "absent"

getActiveModes(files) ==
  SelectSeq(ExecutionModes, LAMBDA mode : hasModeState(files, mode))

\* the loop of clearAllModeStates from mode number i on
RECURSIVE ClearFrom(_, _)
ClearFrom(r, i) ==
  IF i > Len(ExecutionModes) THEN r
  ELSE LET one == clearModeState(r.files, ExecutionModes[i])
       IN ClearFrom([files |-> one.files,
                     attempted |-> r.attempted \cup one.attempted,
                     returns |-> [r.returns EXCEPT
                                    ![ExecutionModes[i]] = one.success],
                     success |-> IF ~one.success THEN FALSE
                                 ELSE r.success],
                    i + 1)

clearAllModeStates(files) ==
  ClearFrom([files |-> files, attempted |-> {},
             returns |-> [mode \in Modes |-> TRUE], success |-> TRUE], 1)

ClearModeState(mode) ==
  /\ LET r == clearModeState(registry.files, mode)
     IN registry' =
          [files |-> r.files,
           call |-> [NoClear EXCEPT !.op = "clearModeState", !.mode = mode,
                                    !.before = registry.files,
                                    !.attempted = r.attempted,
                                    !.ret = r.success]]
  /\ UNCHANGED <<transcriptVars, fileVars, usageVars, hud, workdir, race, last, pure>>

ClearAllModeStates ==
  /\ LET r == clearAllModeStates(registry.files)
     IN registry' =
          [files |-> r.files,
           call |-> [NoClear EXCEPT !.op = "clearAllModeStates",
                                    !.before = registry.files,
                                    !.attempted = r.attempted,
                                    !.returns = r.returns,
                                    !.ret = r.success]]
  /\ UNCHANGED <<transcriptVars, fileVars, usageVars, hud, workdir, race, last, pure>>

\* the files of at most two modes are there, each present or locked
InitRegistry ==
  /\ InitTranscript /\ pc = "folding" /\ InitNoFile /\ InitNoUsage
  /\ hud = NoMain /\ workdir = NoReader /\ race = NoRace
  /\ last = NoLast /\ pure = NoPure
  /\ \E m1, m2 \in Modes :
       \E f \in [FilesOf(m1) \cup FilesOf(m2) ->
                   {"absent", "present", "locked"}] :
         registry =
           [NoRegistry EXCEPT
              !.files = [path \in Paths |->
                           IF path \in DOMAIN f THEN f[path] ELSE "absent"]]

NextRegistry ==
  \/ \E mode \in Modes : ClearModeState(mode)
  \/ ClearAllModeStates

SpecRegistry == InitRegistry /\ [][NextRegistry]_vars

\* the files of the modes that were there when the last call began
Existed(modes) ==
  {path \in UNION {FilesOf(mode) : mode \in modes} :
     registry.call.before[path] # "absent"}
Gone(paths) == \A path \in paths : registry.files[path] = "absent"
Target ==
  IF registry.call.op = "clearModeState" THEN {registry.call.mode}
  ELSE Modes

\* C30: a clearing call calls unlinkSync on every file of its modes that
\* was there, whichever of them fail, removes those that can be removed and
\* touches no other file; clearModeState returns true exactly when every
\* file of the mode that was there is gone, clearAllModeStates exactly when
\* that holds for every mode, and then no mode has state.
C30_ClearsAndReports ==
  registry.call.op # "none" =>
    /\ registry.call.attempted = Existed(Target)
    /\ \A path \in Paths :
         registry.files[path] =
           IF path \in Existed(Target) /\ registry.call.before[path] = "present"
           THEN "absent"
           ELSE registry.call.before[path]
    /\ registry.call.ret <=> Gone(Existed(Target))
    /\ registry.call.op = "clearAllModeStates" =>
         /\ \A mode \in Modes :
              registry.call.returns[mode] <=> Gone(Existed({mode}))
         /\ registry.call.ret <=>
              \A mode \in Modes : registry.call.returns[mode]
         /\ registry.call.ret => getActiveModes(registry.files) = <<>>

\* the state file of ralph could not be removed; its marker and its global
\* file were removed all the same and the call returned false
C30_Witness ==
  /\ registry.call.op = "clearModeState" /\ registry.call.mode = "ralph"
  /\ registry.call.before[getStateFilePath("ralph")] = "locked"
  /\ registry.call.before[getMarkerFilePath("ralph")] = "present"
  /\ registry.call.before[getGlobalStateFilePath("ralph")] = "present"
  /\ Gone({getMarkerFilePath("ralph"), getGlobalStateFilePath("ralph")})
  /\ ~registry.call.ret

\* ------------------------------------------- getUsage calls that overlap
\* JSON.stringify(cache, null, 2) in units: an entry with data is longer
\* than one without
TextLen(entry) == IF entry.data.null THEN 2 ELSE 3
Stringify(entry) == [i \in 1..TextLen(entry) |-> Unit(entry, i)]

\* existsSync, readFileSync, JSON.parse: only the whole text of one entry
\* parses
ReadDisk(disk) ==
  IF ~disk.exists THEN NoCache
  ELSE IF disk.text # <<>> /\ disk.text = Stringify(disk.text[1].entry)
  THEN disk.text[1].entry
  ELSE CorruptCache

\* write(fd, data) at offset 0 of the file as it is now: over what is
\* there, what lies beyond the data stays
WriteOver(text, data) == data \o SubSeq(text, Len(data) + 1, Len(text))

\* writeCache(data, error) begins: the entry is built
BeginWrite(proc, data, error, t) ==
  [proc EXCEPT !.pc = "open", !.entry = CacheEntry(t, data, error),
               !.ret = data]

\* getUsage of process p up to its await, or up to the open of writeCache
RaceStart(p) ==
  /\ race.procs[p].pc = "idle"
  /\ LET c == readCache(ReadDisk(race.disk))
         cr == getCredentials(creds)
         proc == race.procs[p]
         next ==
           IF Cached(c) /\ isCacheValid(c, time)
           THEN [proc EXCEPT !.pc = "returned", !.via = "cache",
                             !.ret = c.data]
           ELSE IF ~cr.found \/ ~validateCredentials(cr, time)
           THEN BeginWrite([proc EXCEPT !.via = "credentials"], NullLimits,
                           TRUE, time)
           ELSE IF ~HeaderSafe(cr.accessToken)
           THEN [proc EXCEPT !.pc = "rejected"]
           ELSE [proc EXCEPT !.pc = "fetching", !.requests = 1]
     IN race' = [race EXCEPT
                   !.procs[p] = next,
                   !.written = IF next.pc = "open" THEN @ \cup {next.entry}
                               ELSE @]
  /\ UNCHANGED <<transcriptVars, fileVars, usageVars, hud, workdir, registry, last, pure>>

\* the request of process p settled: !response, parseUsageResponse, then
\* writeCache begins
RaceFetched(p, some, response) ==
  /\ race.procs[p].pc = "fetching"
  /\ LET usage == IF some THEN parseUsageResponse(response) ELSE NullLimits
         next == BeginWrite([race.procs[p] EXCEPT !.via = "api"], usage,
                            usage.null, time)
     IN race' = [race EXCEPT !.procs[p] = next,
                             !.written = @ \cup {next.entry}]
  /\ UNCHANGED <<transcriptVars, fileVars, usageVars, hud, workdir, registry, last, pure>>

\* writeFileSync opens the file, which empties it; an open that fails
\* lands in the catch of writeCache
RaceOpen(p, ok) ==
  /\ race.procs[p].pc = "open"
  /\ race' = IF ok
             THEN [race EXCEPT !.disk = Disk(<<>>),
                               !.procs[p].pc = "write"]
             ELSE [race EXCEPT !.procs[p].pc = "returned"]
  /\ UNCHANGED <<transcriptVars, fileVars, usageVars, hud, workdir, registry, last, pure>>

\* writeFileSync writes the text, in one write, and closes; the call
\* returns
RaceWrite(p) ==
  /\ race.procs[p].pc = "write"
  /\ race' = [race EXCEPT
                !.disk = Disk(WriteOver(race.disk.text,
                                        Stringify(race.procs[p].entry))),
                !.procs[p].pc = "returned"]
  /\ UNCHANGED <<transcriptVars, fileVars, usageVars, hud, workdir, registry, last, pure>>

RaceEntries ==
  {CacheEntry(0, Limits(42, 7), FALSE), CacheEntry(0, NullLimits, TRUE)}
RaceDisks ==
  {NoDisk, Disk(<<>>), Disk(<<Scrap>>)}
  \cup {Disk(Stringify(e)) : e \in RaceEntries}
  \cup {Disk(SubSeq(Stringify(e), 1, 1)) : e \in RaceEntries}
RacePlatforms ==
  {[platform |-> "linux", keychain |-> NoStore, file |-> NoStore],
   [platform |-> "linux", keychain |-> NoStore,
    file |-> Stored(FileToken, Expiry)],
   [platform |-> "linux", keychain |-> NoStore,
    file |-> Stored(BrokenToken, NoExpiry)]}
RaceResponses ==
  {Response(NoWindow, NoWindow), Response(Window(Num(42)), Window(Num(7))),
   Response(Window(Num(150)), NoWindow)}

InitRace ==
  /\ InitTranscript /\ pc = "folding" /\ InitNoFile
  /\ time = StartTime /\ cache = NoCache /\ creds \in RacePlatforms
  /\ req = NoRequest /\ call = NoCall
  /\ hud = NoMain /\ workdir = NoReader /\ registry = NoRegistry
  /\ last = NoLast /\ pure = NoPure
  /\ \E disk \in RaceDisks :
       race = [NoRace EXCEPT
                 !.disk = disk,
                 !.written = IF Cached(ReadDisk(disk)) THEN {ReadDisk(disk)}
                             ELSE {}]

NextRace ==
  \E p \in Procs :
    \/ RaceStart(p)
    \/ \E some \in BOOLEAN, response \in RaceResponses :
         RaceFetched(p, some, response)
    \/ \E ok \in BOOLEAN : RaceOpen(p, ok)
    \/ RaceWrite(p)

SpecRace == InitRace /\ [][NextRace]_vars

\* C22: of getUsage calls that share the cache file, none raises.
C22_NoInvocationRaises ==
  (\A p \in Procs : race.procs[p].pc # "idle") =>
    \A p \in Procs : race.procs[p].pc # "rejected"

\* what the calls that do not raise do with the file they share: a text
\* that is not one whole entry is a miss; a value taken from the cache is
\* the data of an entry some writeCache call was given, or of the entry
\* there at the start; no call sends more than one request
OverlapHarmless ==
  /\ ReadDisk(race.disk) \in
       {NoCache, CorruptCache} \cup race.written
  /\ \A p \in Procs :
       LET proc == race.procs[p]
       IN /\ proc.requests <= 1
          /\ (proc.pc = "returned" /\ proc.via = "cache") =>
               \E e \in race.written :
                 e.data = proc.ret /\ isCacheValid(e, time)
          /\ (proc.pc = "returned" /\ proc.via = "credentials") =>
               proc.ret.null /\ proc.requests = 0

\* the two calls wrote entries of different lengths over each other: the
\* file holds text that is no entry, and both calls have returned
OverlapGarbage ==
  /\ \A p \in Procs : race.procs[p].pc = "returned"
  /\ race.disk.exists /\ Len(race.disk.text) = 3
  /\ ReadDisk(race.disk) = CorruptCache

\* ---------------------------------------------------------- the end time
\* C33: a tracked job that has an end time and is still tracked and
\* completed after a step has the same end time after it.
C33_EndTimeKept ==
  [][\A i \in 1..Len(agentMap) :
       (/\ agentMap[i].endTime # NoTime
        /\ MapHas(agentMap', agentMap[i].id)
        /\ MapGet(agentMap', agentMap[i].id).status = "completed")
       => MapGet(agentMap', agentMap[i].id).endTime = agentMap[i].endTime]_vars

\* ------------------------------------------------ logs of acks and reports
\* one line is folded and the line, the jobs and the recorded tokens before
\* it are kept
FoldReport(entry) ==
  /\ FoldEntry(entry)
  /\ last' = [folded |-> TRUE, entry |-> entry, agentMap |-> agentMap,
              acked |-> acked]
  /\ UNCHANGED <<fileVars, usageVars, hud, workdir, registry, race, pure>>

ReportBlocks ==
  {ToolUse(1, "Task", TaskInput("explore")),
   ToolResult(1, StringContent(AckText("b7"))),
   ToolResult(1, StringContent(AckText("b7")
                               \o ReportText("b7", "completed"))),
   ToolResult(1, StringContent(<<"done">>)),
   ToolResult(OtherId, StringContent(ReportText("b7", "completed"))),
   ToolResult(OtherId, StringContent(ReportText("b7", "running"))),
   ToolResult(OtherId,
              ArrayContent(<<TextItem(ReportText("b7", "failed"))>>)),
   ToolResult(OtherId, StringContent(ReportText("b7-x", "completed")))}

ReportEntries == {Entry(ts, <<b>>) : ts \in TimeStamps, b \in ReportBlocks}

NextReports ==
  \/ \E entry \in ReportEntries : FoldReport(entry)
  \/ Finish

SpecReports == Init /\ [][NextReports]_vars

\* the line folded last holds a result block with a completion report
LastBlock == last.entry.content[1]
LastReport == parseTaskOutputResult(LastBlock.content)
ReportFolded ==
  /\ last.folded /\ pc = "folding" /\ last.entry.isArray
  /\ IsResult(LastBlock) /\ LastReport.found

\* the jobs the last line left as they were, but for the job its result
\* block completed as a result for that job's own id
JobsKept ==
  /\ Keys(agentMap) = Keys(last.agentMap)
  /\ \A i \in 1..Len(last.agentMap) :
       LET before == last.agentMap[i]
           after == MapGet(agentMap, before.id)
       IN \/ after.status = before.status /\ after.endTime = before.endTime
          \/ /\ before.id = LastBlock.tool_use_id
             /\ ~isBackgroundLaunch(LastBlock.content)

\* C32 as stated: a completion report whose status is not "completed", or
\* whose token no acknowledgment folded on an earlier line recorded, leaves
\* the status and end time of every tracked job as they were.
C32_OnlyRecordedCompleted ==
  (/\ ReportFolded
   /\ \/ LastReport.status # <<"completed">>
      \/ BgGet(last.acked, LastReport.taskId) = NoId)
  => JobsKept

\* C32: a completion report whose status is not "completed", or whose token
\* no acknowledgment recorded, on an earlier line or in the same result
\* body ahead of the report's lookup, leaves the status and end time of
\* every tracked job as they were.
C32_OnlyRecordedCompletedSoFar ==
  (/\ ReportFolded
   /\ \/ LastReport.status # <<"completed">>
      \/ BgGet(acked, LastReport.taskId) = NoId)
  => JobsKept

\* a report with status "running" for a recorded token and a running job:
\* the job still runs
C32_Witness ==
  /\ ReportFolded
  /\ LastReport.status = <<"running">>
  /\ BgGet(last.acked, LastReport.taskId) = 1
  /\ MapHas(agentMap, 1) /\ MapGet(agentMap, 1).status = "running"

\* ------------------------------------------- success entries and failures
\* the cache file holds a success entry that is within its 60 s
FreshSuccess(disk, t) ==
  LET c == ReadDisk(disk)
  IN Cached(c) /\ ~c.error /\ isCacheValid(c, t)

\* C35: while the cache file holds a success entry within its 60 s, no
\* invocation opens the file to write a failure entry over it, however the
\* invocations interleave.
C35_SuccessNotReplaced ==
  [][FreshSuccess(race.disk, time)
     => \A p \in Procs :
          (race.procs[p].pc = "open" /\ race'.procs[p].pc = "write")
          => ~race.procs[p].entry.error]_vars

\* ------------------------------------------------ the entry a call writes
\* C34: a getUsage call that is over and did not answer from a valid cache
\* entry has called writeCache, with error = true exactly when the data is
\* null, and has returned the data it wrote; the entry a successful write
\* leaves holds that data and flag and the time of the write.
C34_OneEntryWritten ==
  (call.state \in {"returned", "rejected"} /\ call.entry # "fresh")
  => /\ call.wrote.attempted
     /\ call.wrote.error <=> call.wrote.data.null
     /\ call.ret = call.wrote.data
     /\ call.stored
        => /\ Cached(cache)
           /\ cache.data = call.wrote.data
           /\ cache.error = call.wrote.error
           /\ cache.timestamp <= time

\* ------------------------------------------- ultrawork: local, then global
\* the view of a state: active and the reinforcement count
ActiveView(f) ==
  [NullView EXCEPT !.null = FALSE, !.active = TRUE, !.count = f.count]

\* C36: readUltraworkStateForHud answers from the local file whenever that
\* file holds a state object, whatever the global file holds, and from the
\* global file otherwise; it returns the view with active = true exactly
\* when the state it answers from has active true, and null otherwise, so
\* an inactive local state gives null beside an active global one.
C36_LocalBeforeGlobal ==
  workdir.reader = "ultrawork" =>
    LET local == workdir.files.ultraworkLocal
        global == workdir.files.ultraworkGlobal
        chosen == IF local.kind = "object" THEN local ELSE global
    IN /\ (chosen.kind = "object" /\ chosen.active)
            => workdir.ret = ActiveView(chosen)
       /\ ~(chosen.kind = "object" /\ chosen.active) => workdir.ret.null
       /\ ~workdir.ret.null => workdir.ret.active

\* an inactive local state beside an active global one: null
C36_Witness ==
  /\ workdir.reader = "ultrawork"
  /\ workdir.files.ultraworkLocal = StateFile(FALSE, 1, 10)
  /\ workdir.files.ultraworkGlobal = StateFile(TRUE, 3, 10)
  /\ workdir.ret.null

\* ------------------------------------------------------- the prd progress
\* the number of the stories that pass
RECURSIVE CountPasses(_)
CountPasses(stories) ==
  IF stories = <<>> THEN 0
  ELSE (IF Head(stories).passes THEN 1 ELSE 0) + CountPasses(Tail(stories))

\* the prd file has a userStories array and readPrdStateForHud was called
PrdRead ==
  /\ workdir.reader = "prd"
  /\ Consulted("prd", workdir.files).kind = "object"
  /\ Consulted("prd", workdir.files).userStories.isArray

\* what readPrdStateForHud answered for the stories of the file
PrdProgress ==
  PrdRead =>
    LET stories == Consulted("prd", workdir.files).userStories.items
        ret == workdir.ret
    IN /\ ~ret.null
       /\ ret.total = Len(stories)
       /\ ret.completed = CountPasses(stories)
       /\ ret.currentStoryId = ""
            <=> \A i \in 1..Len(stories) : stories[i].passes
       /\ ret.currentStoryId # ""
            => \E i \in 1..Len(stories) :
                 /\ ~stories[i].passes
                 /\ stories[i].id = ret.currentStoryId
                 /\ \A j \in 1..Len(stories) :
                      ~stories[j].passes
                      => stories[i].priority <= stories[j].priority

\* C37: readPrdStateForHud reports total = the number of stories,
\* completed = the number of stories that pass, and as current story the id
\* of a story that does not pass and has the least priority among those,
\* null exactly when every story passes; the stories of the file stay as
\* they are.
C37_PrdProgress ==
  []PrdProgress /\ [][PrdRead' => workdir'.files = workdir.files]_vars

\* one story of four passes; of the other three the one of priority 2 that
\* comes first is current, behind one of priority 3
C37_Witness ==
  /\ PrdRead
  /\ workdir.ret.currentStoryId = "US-3"
  /\ workdir.ret.completed = 1 /\ workdir.ret.total = 4

\* ------------------------------------------------- cargo check diagnostics
\* The output of cargo check, line by line.  A line is one the regex can
\* start a match in ("error[E0382]: ..." or "warning: ...": head), one it
\* can end a match in ("--> file:line:col" behind indent blanks: arrow), a
\* line of white space only (blank), or any other line.
MaxRustLines == 3
RustHead(severity, code) ==
  [kind |-> "head", severity |-> severity, code |-> code, indent |-> 0,
   file |-> "", line |-> 0, column |-> 0]
RustArrow(indent, path, line, column) ==
  [kind |-> "arrow", severity |-> "", code |-> "", indent |-> indent,
   file |-> path, line |-> line, column |-> column]
RustBlank == [RustArrow(0, "", 0, 0) EXCEPT !.kind = "blank"]
RustOther == [RustArrow(0, "", 0, 0) EXCEPT !.kind = "other"]
RustLines ==
  {RustHead("error", "E0382"), RustHead("warning", ""),
   RustArrow(1, "src/main.rs", 5, 20), RustArrow(0, "src/lib.rs", 10, 9),
   RustBlank, RustOther}
RustOutputs == UNION {[1..n -> RustLines] : n \in 0..MaxRustLines}

RustDiagnostic(head, arrow) ==
  [severity |-> head.severity, code |-> head.code, file |-> arrow.file,
   line |-> arrow.line, column |-> arrow.column]
NoRustResult ==
  [success |-> FALSE, diagnostics |-> <<>>, errorCount |-> 0,
   warningCount |-> 0]

\* \n\s+-->: the line that ends the match begun in line i, 0 if none.  The
\* white space behind the line break is at least one character: blank
\* lines, or the indent of the arrow line.
ArrowAfter(output, i) ==
  LET rest == {j \in (i + 1)..Len(output) : output[j].kind # "blank"}
  IN IF rest = {} THEN 0
     ELSE LET j == CHOOSE k \in rest : \A m \in rest : k <= m
          IN IF /\ output[j].kind = "arrow"
                /\ output[j].indent > 0 \/ j > i + 1
             THEN j ELSE 0

\* the while loop over regex.exec, from line i on
RECURSIVE RustMatches(_, _)
RustMatches(output, i) ==
  IF i > Len(output) THEN <<>>
  ELSE IF output[i].kind = "head" /\ ArrowAfter(output, i) # 0
  THEN <<RustDiagnostic(output[i], output[ArrowAfter(output, i)])>>
       \o RustMatches(output, ArrowAfter(output, i) + 1)
  ELSE RustMatches(output, i + 1)

OfSeverity(diagnostics, severity) ==
  SelectSeq(diagnostics, LAMBDA d : d.severity = severity)

parseRustOutputMutWarningsFail(output) ==
  LET diagnostics == RustMatches(output, 1)
      errorCount == Len(OfSeverity(diagnostics, "error"))
      warningCount == Len(OfSeverity(diagnostics, "warning"))
  IN [success |-> diagnostics = <<>>, diagnostics |-> diagnostics,
      errorCount |-> errorCount, warningCount |-> warningCount]

parseRustOutput(output) ==
  LET diagnostics == RustMatches(output, 1)
      errorCount == Len(OfSeverity(diagnostics, "error"))
      warningCount == Len(OfSeverity(diagnostics, "warning"))
  IN [success |-> errorCount = 0, diagnostics |-> diagnostics,
      errorCount |-> errorCount, warningCount |-> warningCount]

ParseRustOutput ==
  /\ pure.fn = "none"
  /\ pure' = [pure EXCEPT !.fn = "parseRustOutput",
                          !.output = parseRustOutput(pure.input)]
  /\ UNCHANGED <<transcriptVars, fileVars, usageVars, hud, workdir, registry,
                 race, last>>

InitRust ==
  /\ InitTranscript /\ pc = "folding" /\ InitNoFile /\ InitNoUsage
  /\ hud = NoMain /\ workdir = NoReader /\ registry = NoRegistry
  /\ race = NoRace /\ last = NoLast
  /\ \E output \in RustOutputs :
       pure = [fn |-> "none", input |-> output, output |-> NoRustResult]

NextRust == ParseRustOutput

SpecRust == InitRust /\ [][NextRust]_vars

\* the lines of the output a diagnostic of the severity begins in
Begun(output, severity) ==
  {i \in 1..Len(output) :
     /\ output[i].kind = "head" /\ output[i].severity = severity
     /\ ArrowAfter(output, i) # 0}

\* C31: in the result of parseRustOutput, errorCount + warningCount is the
\* number of diagnostics, errorCount and warningCount are the numbers of
\* diagnostics of severity error and warning, success holds exactly when
\* errorCount is 0, and an output with no diagnostic in it, the empty one
\* included, gives no diagnostics and success.
C31_CountsAgree ==
  pure.fn = "parseRustOutput" =>
    LET r == pure.output
        of(severity) ==
          Cardinality({i \in 1..Len(r.diagnostics) :
                         r.diagnostics[i].severity = severity})
    IN /\ r.errorCount + r.warningCount = Len(r.diagnostics)
       /\ r.errorCount = of("error") /\ r.warningCount = of("warning")
       /\ r.errorCount = Cardinality(Begun(pure.input, "error"))
       /\ r.warningCount = Cardinality(Begun(pure.input, "warning"))
       /\ r.success <=> r.errorCount = 0
       /\ (Begun(pure.input, "error") \cup Begun(pure.input, "warning") = {})
            => r.diagnostics = <<>> /\ r.success

\* a warning alone: one diagnostic, and success
C31_Witness ==
  /\ pure.fn = "parseRustOutput"
  /\ pure.output.errorCount = 0 /\ pure.output.warningCount = 1
  /\ pure.output.success

\* ------------------------------------------------------------ the elements
\* What the elements are given: the limits (percentages in tenths), the
\* agents, and the views of ultrawork and ralph.
MaxAgents == 2
ElementPercents == {-10, -5, 694, 695, 700, 894, 895, 1004, 1005}
ElementLimits ==
  {NullLimits} \cup {Limits(f, w) : f, w \in ElementPercents}
ElementAgents ==
  UNION {[1..n -> {[status |-> "running"], [status |-> "completed"]}] :
           n \in 0..MaxAgents}
ElementViews ==
  {NullView, [NullView EXCEPT !.null = FALSE],
   [NullView EXCEPT !.null = FALSE, !.active = TRUE, !.count = 3]}

RenderRateLimits ==
  /\ pure.fn = "none"
  /\ pure' = [pure EXCEPT !.fn = "renderRateLimits",
                          !.output = renderRateLimits(pure.input.limits)]
  /\ UNCHANGED <<transcriptVars, fileVars, usageVars, hud, workdir, registry,
                 race, last>>

RenderAgents ==
  /\ pure.fn = "none"
  /\ pure' = [pure EXCEPT !.fn = "renderAgents",
                          !.output = renderAgents(pure.input.agents)]
  /\ UNCHANGED <<transcriptVars, fileVars, usageVars, hud, workdir, registry,
                 race, last>>

RenderSkills ==
  /\ pure.fn = "none"
  /\ pure' = [pure EXCEPT !.fn = "renderSkills",
                          !.output = renderSkills(pure.input.ultrawork,
                                                  pure.input.ralph)]
  /\ UNCHANGED <<transcriptVars, fileVars, usageVars, hud, workdir, registry,
                 race, last>>

InitElements ==
  /\ InitTranscript /\ pc = "folding" /\ InitNoFile /\ InitNoUsage
  /\ hud = NoMain /\ workdir = NoReader /\ registry = NoRegistry
  /\ race = NoRace /\ last = NoLast
  /\ \E limits \in ElementLimits, agents \in ElementAgents,
        ultrawork, ralph \in ElementViews :
       pure = [fn |-> "none",
               input |-> [limits |-> limits, agents |-> agents,
                          ultrawork |-> ultrawork, ralph |-> ralph],
               output |-> NoElement]

NextElements == RenderRateLimits \/ RenderAgents \/ RenderSkills

SpecElements == InitElements /\ [][NextElements]_vars

\* the whole percentage shown for a percentage in tenths: the nearest one,
\* the upper one from a half on, no less than 0 and no more than 100
Shown(tenths) ==
  CHOOSE p \in 0..100 :
    \/ p = 0 /\ tenths < 5
    \/ p = 100 /\ tenths >= 995
    \/ 10 * p - 5 <= tenths /\ tenths < 10 * p + 5
\* alert from 90 on, caution from 70 on, neutral below
ColourOf(p) ==
  CASE p >= 90 -> RED
    [] p >= 70 /\ p < 90 -> YELLOW
    [] p < 70 -> GREEN
RunningAt(agents) ==
  {i \in 1..Len(agents) : agents[i].status = "running"}
InOutput(lexeme) == \E i \in 1..Len(pure.output) : pure.output[i] = lexeme

\* C38: renderRateLimits returns null exactly when limits is null and
\* otherwise shows both percentages, each rounded, held within 0..100 and
\* coloured by itself: alert from 90 on, caution from 70 on, neutral below.
\* renderAgents returns null exactly when no agent runs and otherwise shows
\* how many run.  renderSkills returns null exactly when neither ultrawork
\* nor ralph is active, and shows the combined badge exactly when both are.
C38_ElementsShown ==
  /\ pure.fn = "renderRateLimits" =>
       LET limits == pure.input.limits
           fiveHour == Shown(limits.fiveHourPercent)
           weekly == Shown(limits.weeklyPercent)
       IN /\ pure.output = NoElement <=> limits.null
          /\ ~limits.null =>
               pure.output =
                 <<"5h:", ColourOf(fiveHour), ToString(fiveHour), "%", RESET,
                   Space, DIM, "wk:", RESET, ColourOf(weekly),
                   ToString(weekly), "%", RESET>>
  /\ pure.fn = "renderAgents" =>
       LET running == Cardinality(RunningAt(pure.input.agents))
       IN /\ pure.output = NoElement <=> running = 0
          /\ running # 0 =>
               pure.output = <<"agents:", CYAN, ToString(running), RESET>>
  /\ pure.fn = "renderSkills" =>
       LET ultrawork == IsActive(pure.input.ultrawork)
           ralph == IsActive(pure.input.ralph)
       IN /\ pure.output = NoElement <=> ~ultrawork /\ ~ralph
          /\ InOutput("ultrawork-ralph") <=> ultrawork /\ ralph
          /\ (ultrawork /\ ~ralph) => InOutput("ultrawork")
          /\ (ralph /\ ~ultrawork) => InOutput("ralph")

\* 89.5 % in five hours beside 69.4 % in the week: 90 in alert colour
\* beside 69 in neutral colour
C38_Witness ==
  /\ pure.fn = "renderRateLimits"
  /\ pure.input.limits = Limits(895, 694)
  /\ pure.output[2] = RED /\ pure.output[3] = "90"
  /\ pure.output[10] = GREEN /\ pure.output[11] = "69"

====
